---- MODULE Spec2Model ----
(***************************************************************************)
(* A model of the LINE OA chatbot (jaturapornchai/bclineoa): the document  *)
(* store's three collections (users, chat_history,                         *)
(* bcagent_line_registrations), the repositories of src/database.py, and   *)
(* the webhook handlers of src/app.py and src/api/index.py.                *)
(*                                                                         *)
(* Strings are sequences of code points, so that str.isdigit, str.lower,   *)
(* str.strip, datetime.isoformat and the store's string comparison are     *)
(* computed character by character, as the code and the store compute them.*)
(***************************************************************************)
EXTENDS Integers, Sequences, FiniteSets, TLC

VARIABLES
    clock,      \* the wall clock read by datetime.utcnow(): [s, us]
    regs,       \* collection bcagent_line_registrations: _id -> document
    callers,    \* direct callers of the repositories of src/database.py
    chat,       \* collection chat_history: the documents in insertion order
    hist,       \* the last direct call of ChatHistoryRepository and its result
    users,      \* collection users: line_user_id -> its documents, in
                \* insertion order (no index makes line_user_id unique)
    secret,     \* whether LINE_CHANNEL_SECRET is set
    procs,      \* the webhook requests being served
    dbclock     \* the clock of the store's server

vars == <<clock, regs, callers, chat, hist, users, secret, procs, dbclock>>

----------------------------------------------------------------------------
(* Bounds of the model *)

\* the clock takes the first MaxTick + 1 instants of Times
MaxTick == 2

\* chat_history holds at most MaxTurns documents
MaxTurns == 3

----------------------------------------------------------------------------
(* Time, datetime.isoformat() and the store's comparison of strings *)

\* the instants the clock takes, in order: second s with microsecond 0
\* (isoformat drops the fraction) and with microsecond 1 (isoformat prints
\* ".000001"; the two fall in the same millisecond)
Times == {[s |-> k \div 2, us |-> k % 2] : k \in 0..MaxTick}

\* t1 is earlier than t2
TimeLt(t1, t2) == t1.s < t2.s \/ (t1.s = t2.s /\ t1.us < t2.us)

TimeLe(t1, t2) == t1 = t2 \/ TimeLt(t1, t2)

\* n as w decimal digits (code points of '0'..'9'), zero-padded
DigitsOf(n, w) == [i \in 1..w |-> 48 + ((n \div (10 ^ (w - i))) % 10)]

\* datetime.isoformat(): the fixed-width date and time to the second (here
\* the two digits of the second), then "." and six digits of microseconds
\* only when the microsecond field is not 0
IsoFormat(t) ==
    DigitsOf(t.s, 2) \o (IF t.us = 0 THEN <<>> ELSE <<46>> \o DigitsOf(t.us, 6))

\* the store's order on strings: code point by code point, a proper prefix
\* first
StrLt(a, b) ==
    \E k \in 0..(IF Len(a) < Len(b) THEN Len(a) ELSE Len(b)) :
        /\ \A i \in 1..k : a[i] = b[i]
        /\ \/ (k = Len(a) /\ k < Len(b))
           \/ (k < Len(a) /\ k < Len(b) /\ a[k + 1] < b[k + 1])

\* the query operator {"$gt": b} applied to the stored string a
StrGtMut(a, b) == StrLt(b, a) \/ a = b
StrGt(a, b) == StrLt(b, a)

----------------------------------------------------------------------------
(* The registration records and find_and_claim_registration *)

NoUser == "none"
Users == {"U1", "U2"}

\* the 4-digit codes "1234" and "5678"
Code1234 == <<49, 50, 51, 52>>
Code5678 == <<53, 54, 55, 56>>
RegCodes == {Code1234, Code5678}

RegIds == {1, 2}
NoTime == <<>>
None == [none |-> TRUE]

\* a record as the back office provisions it: pending, unbound, with an
\* expiry written in the same ISO form
PendingRecords ==
    [code : RegCodes, status : {"pending"}, expires_at : {IsoFormat(t) : t \in Times},
     line_user_id : {NoUser}, completed_at : {NoTime}]

\* the filter of find_one_and_update (database.py 164-168)
ClaimFilterMut(doc, registration_code, now) ==
    /\ doc.code = registration_code
    /\ StrGt(doc.expires_at, now)
ClaimFilter(doc, registration_code, now) ==
    /\ doc.code = registration_code
    /\ doc.status = "pending"
    /\ StrGt(doc.expires_at, now)

\* the $set of find_one_and_update (database.py 169-175)
ClaimUpdate(doc, line_user_id, now) ==
    [doc EXCEPT !.status = "completed",
                !.line_user_id = line_user_id,
                !.completed_at = now]

IdleCaller == [pc |-> "idle"]

Callers == {1, 2}

\* find_and_claim_registration up to its store call: the caller reads the
\* clock (database.py 159) and suspends on the awaited find_one_and_update.
\* called_at and open only observe the call for the properties below: the
\* instant read, and the records that were claimable when it was read
ClaimCall(p, registration_code, line_user_id) ==
    /\ callers[p].pc = "idle"
    /\ callers' = [callers EXCEPT ![p] =
            [pc |-> "update", code |-> registration_code, user |-> line_user_id,
             called_at |-> clock, now |-> IsoFormat(clock),
             open |-> {r \in RegIds :
                         ClaimFilter(regs[r], registration_code, IsoFormat(clock))}]]
    /\ UNCHANGED <<clock, regs, chat, hist, users, secret, procs, dbclock>>

\* a read followed by a separate write: the update goes to a document that
\* matched when the caller read, whatever its status has become since
ClaimStoreMut(p) ==
    /\ callers[p].pc = "update"
    /\ LET c == callers[p]
       IN  IF c.open = {}
           THEN /\ callers' = [callers EXCEPT ![p] =
                        [c EXCEPT !.pc = "done"] @@ [result |-> None, id |-> 0]]
                /\ UNCHANGED regs
           ELSE \E r \in c.open :
                  /\ regs' = [regs EXCEPT ![r] = ClaimUpdate(regs[r], c.user, c.now)]
                  /\ callers' = [callers EXCEPT ![p] =
                        [c EXCEPT !.pc = "done"] @@ [result |-> regs'[r], id |-> r]]
    /\ UNCHANGED <<clock, chat, hist, users, secret, procs, dbclock>>

\* the store runs find_one_and_update as one step: one document that
\* matches the filter is updated and returned as it is after the update
\* (return_document=True); no match returns None and writes nothing
ClaimStore(p) ==
    /\ callers[p].pc = "update"
    /\ LET c == callers[p]
           matching == {r \in RegIds : ClaimFilter(regs[r], c.code, c.now)}
       IN  IF matching = {}
           THEN /\ callers' = [callers EXCEPT ![p] =
                        [c EXCEPT !.pc = "done"] @@ [result |-> None, id |-> 0]]
                /\ UNCHANGED regs
           ELSE \E r \in matching :
                  /\ regs' = [regs EXCEPT ![r] = ClaimUpdate(regs[r], c.user, c.now)]
                  /\ callers' = [callers EXCEPT ![p] =
                        [c EXCEPT !.pc = "done"] @@ [result |-> regs'[r], id |-> r]]
    /\ UNCHANGED <<clock, chat, hist, users, secret, procs, dbclock>>

\* the caller takes the result and is free to call again
ClaimReturn(p) ==
    /\ callers[p].pc = "done"
    /\ callers' = [callers EXCEPT ![p] = IdleCaller]
    /\ UNCHANGED <<clock, regs, chat, hist, users, secret, procs, dbclock>>

\* time passes
Tick ==
    /\ \E t \in Times : TimeLt(clock, t) /\ clock' = t
    /\ UNCHANGED <<regs, callers, chat, hist, users, secret, procs, dbclock>>

\* what a datetime.utcnow() can have returned that was read after the
\* instant t and before the present step: time passes between two reads,
\* also without a suspension between them
ReadsSince(t) == {later \in Times : TimeLe(t, later) /\ TimeLe(later, clock)}


----------------------------------------------------------------------------
(* The conversation turns: ChatHistoryRepository                           *)
(* (src/database.py 101-142, src/api/index.py 57-82: the same code)        *)

\* the text "hi" and the reply "ok"
TextHi == <<104, 105>>
TextOk == <<111, 107>>

\* a datetime as the store keeps it: BSON dates have millisecond precision
StoreDate(t) == [s |-> t.s, ms |-> t.us \div 1000]

\* d1 is earlier than d2, for stored dates
DateLt(d1, d2) == d1.s < d2.s \/ (d1.s = d2.s /\ d1.ms < d2.ms)

\* add_message: the document insert_one appends, stamped with utcnow()
TurnDoc(line_user_id, role, content, now) ==
    [line_user_id |-> line_user_id, role |-> role, content |-> content,
     created_at |-> StoreDate(now)]

\* the positions of the documents find({"line_user_id": ...}) matches
Matching(coll, line_user_id) ==
    {i \in 1..Len(coll) : coll[i].line_user_id = line_user_id}

\* the documents of a user in insertion order
TurnsOf(coll, line_user_id) ==
    SelectSeq(coll, LAMBDA d : d.line_user_id = line_user_id)

\* sort("created_at", -1): every order of the matching positions in which
\* created_at never increases; the store fixes no order among documents
\* whose created_at is equal
SortedDesc(coll, S) ==
    {f \in [1..Cardinality(S) -> S] :
        /\ \A i \in 1..Cardinality(S), j \in 1..Cardinality(S) : i # j => f[i] # f[j]
        /\ \A i \in 1..Cardinality(S), j \in 1..Cardinality(S) :
              i < j => ~DateLt(coll[f[i]].created_at, coll[f[j]].created_at)}

\* limit(n) for n >= 1: the first n of the cursor
Limit(seq, n) == SubSeq(seq, 1, IF Len(seq) < n THEN Len(seq) ELSE n)

\* list(reversed(messages))
Reversed(seq) == [i \in 1..Len(seq) |-> seq[Len(seq) + 1 - i]]

\* get_history: the lists it can return
HistoryResults(coll, line_user_id, limit) ==
    {Reversed(Limit([i \in 1..Cardinality(Matching(coll, line_user_id)) |-> coll[f[i]]],
                    limit)) :
        f \in SortedDesc(coll, Matching(coll, line_user_id))}

\* clear_history: delete_many removes the user's documents
Cleared(coll, line_user_id) ==
    SelectSeq(coll, LAMBDA d : d.line_user_id # line_user_id)

\* deleted_count
DeletedCount(coll, line_user_id) == Cardinality(Matching(coll, line_user_id))

Roles == {"user", "assistant"}

\* limit=10 of the handlers' get_history call
HistoryLimit == 10

\* the add_message calls in progress
Inserting == {p \in Callers : callers[p].pc = "insert"}

\* a direct call of add_message up to its store call: the caller builds the
\* message with datetime.utcnow() as created_at (database.py 112-118,
\* index.py 60-65) and suspends on insert_one
HistAddCall(p, u, role, content) ==
    /\ callers[p].pc = "idle"
    /\ Len(chat) + Cardinality(Inserting) < MaxTurns
    /\ callers' = [callers EXCEPT ![p] =
          [pc |-> "insert", message |-> TurnDoc(u, role, content, clock)]]
    /\ UNCHANGED <<clock, regs, chat, hist, users, secret, procs, dbclock>>

\* the insert_one of add_message (database.py 120, index.py 66): the store
\* appends the message as the caller built it
HistAdd(p) ==
    /\ callers[p].pc = "insert"
    /\ chat' = Append(chat, callers[p].message)
    /\ hist' = [op |-> "add", user |-> callers[p].message.line_user_id]
    /\ callers' = [callers EXCEPT ![p] = IdleCaller]
    /\ UNCHANGED <<clock, regs, users, secret, procs, dbclock>>

\* a direct call of get_history
HistGet(u, limit) ==
    /\ \E res \in HistoryResults(chat, u, limit) :
          hist' = [op |-> "get", user |-> u, limit |-> limit, result |-> res]
    /\ UNCHANGED <<clock, regs, callers, chat, users, secret, procs, dbclock>>

\* a direct call of clear_history
HistClear(u) ==
    /\ chat' = Cleared(chat, u)
    /\ hist' = [op |-> "clear", user |-> u, deleted |-> DeletedCount(chat, u),
                before |-> chat]
    /\ UNCHANGED <<clock, regs, callers, users, secret, procs, dbclock>>


----------------------------------------------------------------------------
(* Strings: str.isdigit, str.lower, str.strip, str(int) *)

\* the code points for which str.isdigit is true (Unicode 14, the tables of
\* the interpreter): inclusive ranges <<first, last>>
DigitRanges ==
  {
    <<48, 57>>, <<178, 179>>, <<185, 185>>, <<1632, 1641>>, <<1776, 1785>>, <<1984, 1993>>,
    <<2406, 2415>>, <<2534, 2543>>, <<2662, 2671>>, <<2790, 2799>>, <<2918, 2927>>, <<3046, 3055>>,
    <<3174, 3183>>, <<3302, 3311>>, <<3430, 3439>>, <<3558, 3567>>, <<3664, 3673>>, <<3792, 3801>>,
    <<3872, 3881>>, <<4160, 4169>>, <<4240, 4249>>, <<4969, 4977>>, <<6112, 6121>>, <<6160, 6169>>,
    <<6470, 6479>>, <<6608, 6618>>, <<6784, 6793>>, <<6800, 6809>>, <<6992, 7001>>, <<7088, 7097>>,
    <<7232, 7241>>, <<7248, 7257>>, <<8304, 8304>>, <<8308, 8313>>, <<8320, 8329>>, <<9312, 9320>>,
    <<9332, 9340>>, <<9352, 9360>>, <<9450, 9450>>, <<9461, 9469>>, <<9471, 9471>>, <<10102, 10110>>,
    <<10112, 10120>>, <<10122, 10130>>, <<42528, 42537>>, <<43216, 43225>>, <<43264, 43273>>, <<43472, 43481>>,
    <<43504, 43513>>, <<43600, 43609>>, <<44016, 44025>>, <<65296, 65305>>, <<66720, 66729>>, <<68160, 68163>>,
    <<68912, 68921>>, <<69216, 69224>>, <<69714, 69722>>, <<69734, 69743>>, <<69872, 69881>>, <<69942, 69951>>,
    <<70096, 70105>>, <<70384, 70393>>, <<70736, 70745>>, <<70864, 70873>>, <<71248, 71257>>, <<71360, 71369>>,
    <<71472, 71481>>, <<71904, 71913>>, <<72016, 72025>>, <<72784, 72793>>, <<73040, 73049>>, <<73120, 73129>>,
    <<92768, 92777>>, <<92864, 92873>>, <<93008, 93017>>, <<120782, 120831>>, <<123200, 123209>>, <<123632, 123641>>,
    <<125264, 125273>>, <<127232, 127242>>, <<130032, 130041>>
  }

\* the tables are read through an index of pages of PageSize code points,
\* as the interpreter reads its own: the entries of a table <<first, last,
\* ...>> that reach into each page
PageSize == 1024
LastPage == 1087
Paged(table) ==
    [page \in 0..LastPage |->
        {r \in table : r[1] <= page * PageSize + (PageSize - 1)
                        /\ page * PageSize <= r[2]}]
DigitPages == Paged(DigitRanges)

\* whether code point c lies in one of the inclusive ranges of its page
InRanges(pages, c) == \E r \in pages[c \div PageSize] : r[1] <= c /\ c <= r[2]

\* a character str.isdigit accepts: the ASCII digits, the digits of every
\* other script, and the superscript, subscript and circled digits (the
\* ASCII characters are told first, as the interpreter does)
IsDigitChar(c) == IF c < 128 THEN c \in 48..57 ELSE InRanges(DigitPages, c)

\* str.isdigit(): not empty and every character a digit
IsDigitStr(str) == Len(str) > 0 /\ \A i \in 1..Len(str) : IsDigitChar(str[i])

\* the simple lower-case mapping of str.lower: <<first, last, step, delta>>
\* maps every step-th code point c of first..last to c + delta
LowerRuns ==
  {
    <<65, 90, 1, 32>>, <<192, 214, 1, 32>>, <<216, 222, 1, 32>>, <<256, 302, 2, 1>>,
    <<306, 310, 2, 1>>, <<313, 327, 2, 1>>, <<330, 374, 2, 1>>, <<376, 376, 1, -121>>,
    <<377, 381, 2, 1>>, <<385, 385, 1, 210>>, <<386, 388, 2, 1>>, <<390, 390, 1, 206>>,
    <<391, 391, 1, 1>>, <<393, 394, 1, 205>>, <<395, 395, 1, 1>>, <<398, 398, 1, 79>>,
    <<399, 399, 1, 202>>, <<400, 400, 1, 203>>, <<401, 401, 1, 1>>, <<403, 403, 1, 205>>,
    <<404, 404, 1, 207>>, <<406, 406, 1, 211>>, <<407, 407, 1, 209>>, <<408, 408, 1, 1>>,
    <<412, 412, 1, 211>>, <<413, 413, 1, 213>>, <<415, 415, 1, 214>>, <<416, 420, 2, 1>>,
    <<422, 422, 1, 218>>, <<423, 423, 1, 1>>, <<425, 425, 1, 218>>, <<428, 428, 1, 1>>,
    <<430, 430, 1, 218>>, <<431, 431, 1, 1>>, <<433, 434, 1, 217>>, <<435, 437, 2, 1>>,
    <<439, 439, 1, 219>>, <<440, 440, 1, 1>>, <<444, 444, 1, 1>>, <<452, 452, 1, 2>>,
    <<453, 453, 1, 1>>, <<455, 455, 1, 2>>, <<456, 456, 1, 1>>, <<458, 458, 1, 2>>,
    <<459, 475, 2, 1>>, <<478, 494, 2, 1>>, <<497, 497, 1, 2>>, <<498, 500, 2, 1>>,
    <<502, 502, 1, -97>>, <<503, 503, 1, -56>>, <<504, 542, 2, 1>>, <<544, 544, 1, -130>>,
    <<546, 562, 2, 1>>, <<570, 570, 1, 10795>>, <<571, 571, 1, 1>>, <<573, 573, 1, -163>>,
    <<574, 574, 1, 10792>>, <<577, 577, 1, 1>>, <<579, 579, 1, -195>>, <<580, 580, 1, 69>>,
    <<581, 581, 1, 71>>, <<582, 590, 2, 1>>, <<880, 882, 2, 1>>, <<886, 886, 1, 1>>,
    <<895, 895, 1, 116>>, <<902, 902, 1, 38>>, <<904, 906, 1, 37>>, <<908, 908, 1, 64>>,
    <<910, 911, 1, 63>>, <<913, 929, 1, 32>>, <<931, 939, 1, 32>>, <<975, 975, 1, 8>>,
    <<984, 1006, 2, 1>>, <<1012, 1012, 1, -60>>, <<1015, 1015, 1, 1>>, <<1017, 1017, 1, -7>>,
    <<1018, 1018, 1, 1>>, <<1021, 1023, 1, -130>>, <<1024, 1039, 1, 80>>, <<1040, 1071, 1, 32>>,
    <<1120, 1152, 2, 1>>, <<1162, 1214, 2, 1>>, <<1216, 1216, 1, 15>>, <<1217, 1229, 2, 1>>,
    <<1232, 1326, 2, 1>>, <<1329, 1366, 1, 48>>, <<4256, 4293, 1, 7264>>, <<4295, 4295, 1, 7264>>,
    <<4301, 4301, 1, 7264>>, <<5024, 5103, 1, 38864>>, <<5104, 5109, 1, 8>>, <<7312, 7354, 1, -3008>>,
    <<7357, 7359, 1, -3008>>, <<7680, 7828, 2, 1>>, <<7838, 7838, 1, -7615>>, <<7840, 7934, 2, 1>>,
    <<7944, 7951, 1, -8>>, <<7960, 7965, 1, -8>>, <<7976, 7983, 1, -8>>, <<7992, 7999, 1, -8>>,
    <<8008, 8013, 1, -8>>, <<8025, 8031, 2, -8>>, <<8040, 8047, 1, -8>>, <<8072, 8079, 1, -8>>,
    <<8088, 8095, 1, -8>>, <<8104, 8111, 1, -8>>, <<8120, 8121, 1, -8>>, <<8122, 8123, 1, -74>>,
    <<8124, 8124, 1, -9>>, <<8136, 8139, 1, -86>>, <<8140, 8140, 1, -9>>, <<8152, 8153, 1, -8>>,
    <<8154, 8155, 1, -100>>, <<8168, 8169, 1, -8>>, <<8170, 8171, 1, -112>>, <<8172, 8172, 1, -7>>,
    <<8184, 8185, 1, -128>>, <<8186, 8187, 1, -126>>, <<8188, 8188, 1, -9>>, <<8486, 8486, 1, -7517>>,
    <<8490, 8490, 1, -8383>>, <<8491, 8491, 1, -8262>>, <<8498, 8498, 1, 28>>, <<8544, 8559, 1, 16>>,
    <<8579, 8579, 1, 1>>, <<9398, 9423, 1, 26>>, <<11264, 11311, 1, 48>>, <<11360, 11360, 1, 1>>,
    <<11362, 11362, 1, -10743>>, <<11363, 11363, 1, -3814>>, <<11364, 11364, 1, -10727>>, <<11367, 11371, 2, 1>>,
    <<11373, 11373, 1, -10780>>, <<11374, 11374, 1, -10749>>, <<11375, 11375, 1, -10783>>, <<11376, 11376, 1, -10782>>,
    <<11378, 11378, 1, 1>>, <<11381, 11381, 1, 1>>, <<11390, 11391, 1, -10815>>, <<11392, 11490, 2, 1>>,
    <<11499, 11501, 2, 1>>, <<11506, 11506, 1, 1>>, <<42560, 42604, 2, 1>>, <<42624, 42650, 2, 1>>,
    <<42786, 42798, 2, 1>>, <<42802, 42862, 2, 1>>, <<42873, 42875, 2, 1>>, <<42877, 42877, 1, -35332>>,
    <<42878, 42886, 2, 1>>, <<42891, 42891, 1, 1>>, <<42893, 42893, 1, -42280>>, <<42896, 42898, 2, 1>>,
    <<42902, 42920, 2, 1>>, <<42922, 42922, 1, -42308>>, <<42923, 42923, 1, -42319>>, <<42924, 42924, 1, -42315>>,
    <<42925, 42925, 1, -42305>>, <<42926, 42926, 1, -42308>>, <<42928, 42928, 1, -42258>>, <<42929, 42929, 1, -42282>>,
    <<42930, 42930, 1, -42261>>, <<42931, 42931, 1, 928>>, <<42932, 42946, 2, 1>>, <<42948, 42948, 1, -48>>,
    <<42949, 42949, 1, -42307>>, <<42950, 42950, 1, -35384>>, <<42951, 42953, 2, 1>>, <<42960, 42960, 1, 1>>,
    <<42966, 42968, 2, 1>>, <<42997, 42997, 1, 1>>, <<65313, 65338, 1, 32>>, <<66560, 66599, 1, 40>>,
    <<66736, 66771, 1, 40>>, <<66928, 66938, 1, 39>>, <<66940, 66954, 1, 39>>, <<66956, 66962, 1, 39>>,
    <<66964, 66965, 1, 39>>, <<68736, 68786, 1, 64>>, <<71840, 71871, 1, 32>>, <<93760, 93791, 1, 32>>,
    <<125184, 125217, 1, 34>>
  }

\* the non-ignorable cased code points, as the Final_Sigma rule of str.lower
\* reads them
CasedRanges ==
  {
    <<65, 90>>, <<97, 122>>, <<170, 170>>, <<181, 181>>, <<186, 186>>, <<192, 214>>,
    <<216, 246>>, <<248, 442>>, <<444, 447>>, <<452, 659>>, <<661, 687>>, <<880, 883>>,
    <<886, 887>>, <<891, 893>>, <<895, 895>>, <<902, 902>>, <<904, 906>>, <<908, 908>>,
    <<910, 929>>, <<931, 1013>>, <<1015, 1153>>, <<1162, 1327>>, <<1329, 1366>>, <<1376, 1416>>,
    <<4256, 4293>>, <<4295, 4295>>, <<4301, 4301>>, <<4304, 4346>>, <<4349, 4351>>, <<5024, 5109>>,
    <<5112, 5117>>, <<7296, 7304>>, <<7312, 7354>>, <<7357, 7359>>, <<7424, 7467>>, <<7531, 7543>>,
    <<7545, 7578>>, <<7680, 7957>>, <<7960, 7965>>, <<7968, 8005>>, <<8008, 8013>>, <<8016, 8023>>,
    <<8025, 8025>>, <<8027, 8027>>, <<8029, 8029>>, <<8031, 8061>>, <<8064, 8116>>, <<8118, 8124>>,
    <<8126, 8126>>, <<8130, 8132>>, <<8134, 8140>>, <<8144, 8147>>, <<8150, 8155>>, <<8160, 8172>>,
    <<8178, 8180>>, <<8182, 8188>>, <<8450, 8450>>, <<8455, 8455>>, <<8458, 8467>>, <<8469, 8469>>,
    <<8473, 8477>>, <<8484, 8484>>, <<8486, 8486>>, <<8488, 8488>>, <<8490, 8493>>, <<8495, 8500>>,
    <<8505, 8505>>, <<8508, 8511>>, <<8517, 8521>>, <<8526, 8526>>, <<8544, 8575>>, <<8579, 8580>>,
    <<9398, 9449>>, <<11264, 11387>>, <<11390, 11492>>, <<11499, 11502>>, <<11506, 11507>>, <<11520, 11557>>,
    <<11559, 11559>>, <<11565, 11565>>, <<42560, 42605>>, <<42624, 42651>>, <<42786, 42863>>, <<42865, 42887>>,
    <<42891, 42894>>, <<42896, 42954>>, <<42960, 42961>>, <<42963, 42963>>, <<42965, 42969>>, <<42997, 42998>>,
    <<43002, 43002>>, <<43824, 43866>>, <<43872, 43880>>, <<43888, 43967>>, <<64256, 64262>>, <<64275, 64279>>,
    <<65313, 65338>>, <<65345, 65370>>, <<66560, 66639>>, <<66736, 66771>>, <<66776, 66811>>, <<66928, 66938>>,
    <<66940, 66954>>, <<66956, 66962>>, <<66964, 66965>>, <<66967, 66977>>, <<66979, 66993>>, <<66995, 67001>>,
    <<67003, 67004>>, <<68736, 68786>>, <<68800, 68850>>, <<71840, 71903>>, <<93760, 93823>>, <<119808, 119892>>,
    <<119894, 119964>>, <<119966, 119967>>, <<119970, 119970>>, <<119973, 119974>>, <<119977, 119980>>, <<119982, 119993>>,
    <<119995, 119995>>, <<119997, 120003>>, <<120005, 120069>>, <<120071, 120074>>, <<120077, 120084>>, <<120086, 120092>>,
    <<120094, 120121>>, <<120123, 120126>>, <<120128, 120132>>, <<120134, 120134>>, <<120138, 120144>>, <<120146, 120485>>,
    <<120488, 120512>>, <<120514, 120538>>, <<120540, 120570>>, <<120572, 120596>>, <<120598, 120628>>, <<120630, 120654>>,
    <<120656, 120686>>, <<120688, 120712>>, <<120714, 120744>>, <<120746, 120770>>, <<120772, 120779>>, <<122624, 122633>>,
    <<122635, 122654>>, <<125184, 125251>>, <<127280, 127305>>, <<127312, 127337>>, <<127344, 127369>>
  }

\* the case-ignorable code points, which the Final_Sigma rule skips
CaseIgnorableRanges ==
  {
    <<39, 39>>, <<46, 46>>, <<58, 58>>, <<94, 94>>, <<96, 96>>, <<168, 168>>,
    <<173, 173>>, <<175, 175>>, <<180, 180>>, <<183, 184>>, <<688, 879>>, <<884, 885>>,
    <<890, 890>>, <<900, 901>>, <<903, 903>>, <<1155, 1161>>, <<1369, 1369>>, <<1375, 1375>>,
    <<1425, 1469>>, <<1471, 1471>>, <<1473, 1474>>, <<1476, 1477>>, <<1479, 1479>>, <<1524, 1524>>,
    <<1536, 1541>>, <<1552, 1562>>, <<1564, 1564>>, <<1600, 1600>>, <<1611, 1631>>, <<1648, 1648>>,
    <<1750, 1757>>, <<1759, 1768>>, <<1770, 1773>>, <<1807, 1807>>, <<1809, 1809>>, <<1840, 1866>>,
    <<1958, 1968>>, <<2027, 2037>>, <<2042, 2042>>, <<2045, 2045>>, <<2070, 2093>>, <<2137, 2139>>,
    <<2184, 2184>>, <<2192, 2193>>, <<2200, 2207>>, <<2249, 2306>>, <<2362, 2362>>, <<2364, 2364>>,
    <<2369, 2376>>, <<2381, 2381>>, <<2385, 2391>>, <<2402, 2403>>, <<2417, 2417>>, <<2433, 2433>>,
    <<2492, 2492>>, <<2497, 2500>>, <<2509, 2509>>, <<2530, 2531>>, <<2558, 2558>>, <<2561, 2562>>,
    <<2620, 2620>>, <<2625, 2626>>, <<2631, 2632>>, <<2635, 2637>>, <<2641, 2641>>, <<2672, 2673>>,
    <<2677, 2677>>, <<2689, 2690>>, <<2748, 2748>>, <<2753, 2757>>, <<2759, 2760>>, <<2765, 2765>>,
    <<2786, 2787>>, <<2810, 2815>>, <<2817, 2817>>, <<2876, 2876>>, <<2879, 2879>>, <<2881, 2884>>,
    <<2893, 2893>>, <<2901, 2902>>, <<2914, 2915>>, <<2946, 2946>>, <<3008, 3008>>, <<3021, 3021>>,
    <<3072, 3072>>, <<3076, 3076>>, <<3132, 3132>>, <<3134, 3136>>, <<3142, 3144>>, <<3146, 3149>>,
    <<3157, 3158>>, <<3170, 3171>>, <<3201, 3201>>, <<3260, 3260>>, <<3263, 3263>>, <<3270, 3270>>,
    <<3276, 3277>>, <<3298, 3299>>, <<3328, 3329>>, <<3387, 3388>>, <<3393, 3396>>, <<3405, 3405>>,
    <<3426, 3427>>, <<3457, 3457>>, <<3530, 3530>>, <<3538, 3540>>, <<3542, 3542>>, <<3633, 3633>>,
    <<3636, 3642>>, <<3654, 3662>>, <<3761, 3761>>, <<3764, 3772>>, <<3782, 3782>>, <<3784, 3789>>,
    <<3864, 3865>>, <<3893, 3893>>, <<3895, 3895>>, <<3897, 3897>>, <<3953, 3966>>, <<3968, 3972>>,
    <<3974, 3975>>, <<3981, 3991>>, <<3993, 4028>>, <<4038, 4038>>, <<4141, 4144>>, <<4146, 4151>>,
    <<4153, 4154>>, <<4157, 4158>>, <<4184, 4185>>, <<4190, 4192>>, <<4209, 4212>>, <<4226, 4226>>,
    <<4229, 4230>>, <<4237, 4237>>, <<4253, 4253>>, <<4348, 4348>>, <<4957, 4959>>, <<5906, 5908>>,
    <<5938, 5939>>, <<5970, 5971>>, <<6002, 6003>>, <<6068, 6069>>, <<6071, 6077>>, <<6086, 6086>>,
    <<6089, 6099>>, <<6103, 6103>>, <<6109, 6109>>, <<6155, 6159>>, <<6211, 6211>>, <<6277, 6278>>,
    <<6313, 6313>>, <<6432, 6434>>, <<6439, 6440>>, <<6450, 6450>>, <<6457, 6459>>, <<6679, 6680>>,
    <<6683, 6683>>, <<6742, 6742>>, <<6744, 6750>>, <<6752, 6752>>, <<6754, 6754>>, <<6757, 6764>>,
    <<6771, 6780>>, <<6783, 6783>>, <<6823, 6823>>, <<6832, 6862>>, <<6912, 6915>>, <<6964, 6964>>,
    <<6966, 6970>>, <<6972, 6972>>, <<6978, 6978>>, <<7019, 7027>>, <<7040, 7041>>, <<7074, 7077>>,
    <<7080, 7081>>, <<7083, 7085>>, <<7142, 7142>>, <<7144, 7145>>, <<7149, 7149>>, <<7151, 7153>>,
    <<7212, 7219>>, <<7222, 7223>>, <<7288, 7293>>, <<7376, 7378>>, <<7380, 7392>>, <<7394, 7400>>,
    <<7405, 7405>>, <<7412, 7412>>, <<7416, 7417>>, <<7468, 7530>>, <<7544, 7544>>, <<7579, 7679>>,
    <<8125, 8125>>, <<8127, 8129>>, <<8141, 8143>>, <<8157, 8159>>, <<8173, 8175>>, <<8189, 8190>>,
    <<8203, 8207>>, <<8216, 8217>>, <<8228, 8228>>, <<8231, 8231>>, <<8234, 8238>>, <<8288, 8292>>,
    <<8294, 8303>>, <<8305, 8305>>, <<8319, 8319>>, <<8336, 8348>>, <<8400, 8432>>, <<11388, 11389>>,
    <<11503, 11505>>, <<11631, 11631>>, <<11647, 11647>>, <<11744, 11775>>, <<11823, 11823>>, <<12293, 12293>>,
    <<12330, 12333>>, <<12337, 12341>>, <<12347, 12347>>, <<12441, 12446>>, <<12540, 12542>>, <<40981, 40981>>,
    <<42232, 42237>>, <<42508, 42508>>, <<42607, 42610>>, <<42612, 42621>>, <<42623, 42623>>, <<42652, 42655>>,
    <<42736, 42737>>, <<42752, 42785>>, <<42864, 42864>>, <<42888, 42890>>, <<42994, 42996>>, <<43000, 43001>>,
    <<43010, 43010>>, <<43014, 43014>>, <<43019, 43019>>, <<43045, 43046>>, <<43052, 43052>>, <<43204, 43205>>,
    <<43232, 43249>>, <<43263, 43263>>, <<43302, 43309>>, <<43335, 43345>>, <<43392, 43394>>, <<43443, 43443>>,
    <<43446, 43449>>, <<43452, 43453>>, <<43471, 43471>>, <<43493, 43494>>, <<43561, 43566>>, <<43569, 43570>>,
    <<43573, 43574>>, <<43587, 43587>>, <<43596, 43596>>, <<43632, 43632>>, <<43644, 43644>>, <<43696, 43696>>,
    <<43698, 43700>>, <<43703, 43704>>, <<43710, 43711>>, <<43713, 43713>>, <<43741, 43741>>, <<43756, 43757>>,
    <<43763, 43764>>, <<43766, 43766>>, <<43867, 43871>>, <<43881, 43883>>, <<44005, 44005>>, <<44008, 44008>>,
    <<44013, 44013>>, <<64286, 64286>>, <<64434, 64450>>, <<65024, 65039>>, <<65043, 65043>>, <<65056, 65071>>,
    <<65106, 65106>>, <<65109, 65109>>, <<65279, 65279>>, <<65287, 65287>>, <<65294, 65294>>, <<65306, 65306>>,
    <<65342, 65342>>, <<65344, 65344>>, <<65392, 65392>>, <<65438, 65439>>, <<65507, 65507>>, <<65529, 65531>>,
    <<66045, 66045>>, <<66272, 66272>>, <<66422, 66426>>, <<67456, 67461>>, <<67463, 67504>>, <<67506, 67514>>,
    <<68097, 68099>>, <<68101, 68102>>, <<68108, 68111>>, <<68152, 68154>>, <<68159, 68159>>, <<68325, 68326>>,
    <<68900, 68903>>, <<69291, 69292>>, <<69446, 69456>>, <<69506, 69509>>, <<69633, 69633>>, <<69688, 69702>>,
    <<69744, 69744>>, <<69747, 69748>>, <<69759, 69761>>, <<69811, 69814>>, <<69817, 69818>>, <<69821, 69821>>,
    <<69826, 69826>>, <<69837, 69837>>, <<69888, 69890>>, <<69927, 69931>>, <<69933, 69940>>, <<70003, 70003>>,
    <<70016, 70017>>, <<70070, 70078>>, <<70089, 70092>>, <<70095, 70095>>, <<70191, 70193>>, <<70196, 70196>>,
    <<70198, 70199>>, <<70206, 70206>>, <<70367, 70367>>, <<70371, 70378>>, <<70400, 70401>>, <<70459, 70460>>,
    <<70464, 70464>>, <<70502, 70508>>, <<70512, 70516>>, <<70712, 70719>>, <<70722, 70724>>, <<70726, 70726>>,
    <<70750, 70750>>, <<70835, 70840>>, <<70842, 70842>>, <<70847, 70848>>, <<70850, 70851>>, <<71090, 71093>>,
    <<71100, 71101>>, <<71103, 71104>>, <<71132, 71133>>, <<71219, 71226>>, <<71229, 71229>>, <<71231, 71232>>,
    <<71339, 71339>>, <<71341, 71341>>, <<71344, 71349>>, <<71351, 71351>>, <<71453, 71455>>, <<71458, 71461>>,
    <<71463, 71467>>, <<71727, 71735>>, <<71737, 71738>>, <<71995, 71996>>, <<71998, 71998>>, <<72003, 72003>>,
    <<72148, 72151>>, <<72154, 72155>>, <<72160, 72160>>, <<72193, 72202>>, <<72243, 72248>>, <<72251, 72254>>,
    <<72263, 72263>>, <<72273, 72278>>, <<72281, 72283>>, <<72330, 72342>>, <<72344, 72345>>, <<72752, 72758>>,
    <<72760, 72765>>, <<72767, 72767>>, <<72850, 72871>>, <<72874, 72880>>, <<72882, 72883>>, <<72885, 72886>>,
    <<73009, 73014>>, <<73018, 73018>>, <<73020, 73021>>, <<73023, 73029>>, <<73031, 73031>>, <<73104, 73105>>,
    <<73109, 73109>>, <<73111, 73111>>, <<73459, 73460>>, <<78896, 78904>>, <<92912, 92916>>, <<92976, 92982>>,
    <<92992, 92995>>, <<94031, 94031>>, <<94095, 94111>>, <<94176, 94177>>, <<94179, 94180>>, <<110576, 110579>>,
    <<110581, 110587>>, <<110589, 110590>>, <<113821, 113822>>, <<113824, 113827>>, <<118528, 118573>>, <<118576, 118598>>,
    <<119143, 119145>>, <<119155, 119170>>, <<119173, 119179>>, <<119210, 119213>>, <<119362, 119364>>, <<121344, 121398>>,
    <<121403, 121452>>, <<121461, 121461>>, <<121476, 121476>>, <<121499, 121503>>, <<121505, 121519>>, <<122880, 122886>>,
    <<122888, 122904>>, <<122907, 122913>>, <<122915, 122916>>, <<122918, 122922>>, <<123184, 123197>>, <<123566, 123566>>,
    <<123628, 123631>>, <<125136, 125142>>, <<125252, 125259>>, <<127995, 127999>>, <<917505, 917505>>, <<917536, 917631>>,
    <<917760, 917999>>
  }

LowerPages == Paged(LowerRuns)
CasedPages == Paged(CasedRanges)
CaseIgnorablePages == Paged(CaseIgnorableRanges)

IsCased(c) == InRanges(CasedPages, c)
IsCaseIgnorable(c) == InRanges(CaseIgnorablePages, c)

\* the code points of 'İ' (which lowers to two code points) and of the
\* capital, small and final small sigma
CapitalIDot == 304
LowerIDot == <<105, 775>>
CapitalSigma == 931
SmallSigma == 963
FinalSigma == 962

\* the lower case of one character out of context: a sequence, since the
\* mapping of 'İ' has two code points (the ASCII characters are told first,
\* as the interpreter does)
LowerChar(c) ==
    IF c < 128 THEN (IF c \in 65..90 THEN <<c + 32>> ELSE <<c>>)
    ELSE IF c = CapitalIDot THEN LowerIDot
    ELSE LET runs == {r \in LowerPages[c \div PageSize] :
                         r[1] <= c /\ c <= r[2] /\ (c - r[1]) % r[3] = 0}
         IN  IF runs = {} THEN <<c>> ELSE <<c + (CHOOSE r \in runs : TRUE)[4]>>

\* the lower case of the capital sigma at position i of str: the final form
\* when a cased character precedes it and none follows, case-ignorable
\* characters skipped on both sides
LowerSigma(str, i) ==
    LET before == {j \in 1..(i - 1) : ~IsCaseIgnorable(str[j])}
        after == {j \in (i + 1)..Len(str) : ~IsCaseIgnorable(str[j])}
        prev == CHOOSE j \in before : \A k \in before : k <= j
        next == CHOOSE j \in after : \A k \in after : j <= k
    IN  IF /\ before # {}
           /\ IsCased(str[prev])
           /\ (after = {} \/ ~IsCased(str[next]))
        THEN FinalSigma ELSE SmallSigma

\* str.lower(): the lower case of every character, in order; a string of
\* ASCII characters alone is lowered character by character
RECURSIVE LowerFrom(_, _)
LowerFrom(str, i) ==
    IF i > Len(str) THEN <<>>
    ELSE (IF str[i] = CapitalSigma THEN <<LowerSigma(str, i)>>
          ELSE LowerChar(str[i])) \o LowerFrom(str, i + 1)
Lower(str) ==
    IF \A i \in 1..Len(str) : str[i] < 128
    THEN [i \in 1..Len(str) |-> IF str[i] \in 65..90 THEN str[i] + 32 ELSE str[i]]
    ELSE LowerFrom(str, 1)

\* a character str.strip() removes: the characters str.isspace accepts
IsSpace(c) ==
    c \in {9, 10, 11, 12, 13, 28, 29, 30, 31, 32, 133, 160, 5760}
          \cup (8192..8202) \cup {8232, 8233, 8239, 8287, 12288}

\* str.strip(): without its leading and trailing whitespace
Strip(str) ==
    LET keep == {i \in 1..Len(str) : ~IsSpace(str[i])}
    IN  IF keep = {} THEN <<>>
        ELSE SubSeq(str, CHOOSE i \in keep : \A j \in keep : i <= j,
                         CHOOSE i \in keep : \A j \in keep : j <= i)

\* str(n) of an f-string, n >= 0
RECURSIVE Decimal(_)
Decimal(n) == IF n < 10 THEN <<48 + n>> ELSE Decimal(n \div 10) \o <<48 + (n % 10)>>

\* Python's None where the code holds a str or None
NoneStr == <<-1>>

\* x or y, for str or None
OrElse(x, y) == IF x = NoneStr \/ x = <<>> THEN y ELSE x

----------------------------------------------------------------------------
(* The fixed texts of the handlers *)

SlashClear == <<47, 99, 108, 101, 97, 114>>
\* "/Clear" and " /clear"
SlashClearCaps == <<47, 67, 108, 101, 97, 114>>
SpaceSlashClear == <<32, 47, 99, 108, 101, 97, 114>>

UnsupportedText ==
    <<3586, 3629, 3629, 3616, 3633, 3618, 32, 3605, 3629, 3609, 3609, 3637,
      3657, 3619, 3629, 3591, 3619, 3633, 3610, 3648, 3593, 3614, 3634,
      3632, 3586, 3657, 3629, 3588, 3623, 3634, 3617, 3605, 3633, 3623,
      3629, 3633, 3585, 3625, 3619, 3648, 3607, 3656, 3634, 3609, 3633,
      3657, 3609>>
ClearedPrefix ==
    <<3621, 3610, 3611, 3619, 3632, 3623, 3633, 3605, 3636, 3649, 3594,
      3607, 32>>
ClearedSuffix ==
    <<32, 3586, 3657, 3629, 3588, 3623, 3634, 3617, 3649, 3621, 3657, 3623>>
RegisterCmd ==
    <<3621, 3591, 3607, 3632, 3648, 3610, 3637, 3618, 3609>>
DefaultName ==
    <<3588, 3640, 3603>>
AiErrorText ==
    <<3586, 3629, 3629, 3616, 3633, 3618, 32, 3648, 3585, 3636, 3604, 3586,
      3657, 3629, 3612, 3636, 3604, 3614, 3621, 3634, 3604, 3651, 3609,
      3585, 3634, 3619, 3648, 3594, 3639, 3656, 3629, 3617, 3605, 3656,
      3629, 32, 65, 73>>
AiNoKeyText ==
    <<3586, 3629, 3629, 3616, 3633, 3618, 32, 3618, 3633, 3591, 3652, 3617,
      3656, 3652, 3604, 3657, 3605, 3633, 3657, 3591, 3588, 3656, 3634, 32,
      71, 69, 77, 73, 78, 73, 95, 65, 80, 73, 95, 75, 69, 89>>
UserIdPrompt ==
    <<3585, 3619, 3640, 3603, 3634, 3609, 3635, 32, 85, 115, 101, 114, 32,
      73, 68, 32, 3604, 3657, 3634, 3609, 3621, 3656, 3634, 3591, 3609,
      3637, 3657, 3652, 3611, 3621, 3591, 3607, 3632, 3648, 3610, 3637,
      3618, 3609, 3651, 3609, 3619, 3632, 3610, 3610, 32, 66, 67, 32, 77,
      101, 114, 99, 104, 97, 110, 116>>
ConfirmPrefix ==
    <<9989, 32, 3621, 3591, 3607, 3632, 3648, 3610, 3637, 3618, 3609, 3585,
      3633, 3610, 32>>
ConfirmMiddle ==
    <<32, 3626, 3635, 3648, 3619, 3655, 3592, 33, 10, 10, 3618, 3636, 3609,
      3604, 3637, 3605, 3657, 3629, 3609, 3619, 3633, 3610, 3588, 3640,
      3603, 32>>
ConfirmSuffix ==
    <<32, 127881>>
DefaultShop ==
    <<3619, 3657, 3634, 3609, 3588, 3657, 3634>>
DefaultCustomer ==
    <<3621, 3641, 3585, 3588, 3657, 3634>>
WelcomePrefix ==
    <<3626, 3623, 3633, 3626, 3604, 3637, 3588, 3619, 3633, 3610, 32>>
WelcomeSuffixApp ==
    <<33, 32, 128591, 10, 10, 3618, 3636, 3609, 3604, 3637, 3605, 3657,
      3629, 3609, 3619, 3633, 3610, 3626, 3641, 3656, 32, 65, 73, 32, 67,
      104, 97, 116, 98, 111, 116, 10, 10, 128272, 32, 3585, 3619, 3640,
      3603, 3634, 3585, 3619, 3629, 3585, 3619, 3627, 3633, 3626, 3621,
      3591, 3607, 3632, 3648, 3610, 3637, 3618, 3609, 32, 52, 32, 3627,
      3621, 3633, 3585, 3648, 3614, 3639, 3656, 3629, 3648, 3619, 3636,
      3656, 3617, 3651, 3594, 3657, 3591, 3634, 3609>>
WelcomeSuffixIndex ==
    <<33, 10, 10, 3618, 3636, 3609, 3604, 3637, 3605, 3657, 3629, 3609,
      3619, 3633, 3610, 3626, 3641, 3656, 32, 65, 73, 32, 67, 104, 97, 116,
      98, 111, 116, 10, 3614, 3636, 3617, 3614, 3660, 3586, 3657, 3629,
      3588, 3623, 3634, 3617, 3617, 3634, 3652, 3604, 3657, 3648, 3621,
      3618, 3588, 3619, 3633, 3610, 32, 3612, 3617, 3614, 3619, 3657, 3629,
      3617, 3594, 3656, 3623, 3618, 3648, 3627, 3621, 3639, 3629, 3588,
      3640, 3603, 10, 10, 3614, 3636, 3617, 3614, 3660, 32, 47, 99, 108,
      101, 97, 114, 32, 3648, 3614, 3639, 3656, 3629, 3621, 3610, 3611,
      3619, 3632, 3623, 3633, 3605, 3636, 3649, 3594, 3607>>

\* f"ลบประวัติแชท {deleted} ข้อความแล้ว"
ClearedText(deleted) == ClearedPrefix \o Decimal(deleted) \o ClearedSuffix

\* the confirmation of a claim (app.py 95)
ConfirmText(shop_name, display_name) ==
    ConfirmPrefix \o shop_name \o ConfirmMiddle
        \o OrElse(display_name, DefaultCustomer) \o ConfirmSuffix

\* the welcome of a follow event (app.py 136, index.py 287)
WelcomeText(variant, display_name) ==
    WelcomePrefix \o display_name
        \o (IF variant = "app" THEN WelcomeSuffixApp ELSE WelcomeSuffixIndex)

----------------------------------------------------------------------------
(* The user directory: UserRepository *)

NoDoc == [absent |-> TRUE]

\* the paths of "$set" and of "$setOnInsert" in create_pending_user
\* (database.py 47-55 and 61)
CreateSetPaths ==
    {"line_user_id", "display_name", "picture_url", "registered",
     "registration_code", "created_at", "updated_at"}
CreateSetOnInsertPaths == {"created_at"}

\* the paths of "$set" and of "$setOnInsert" in register_user of index.py
\* (index.py 32-37 and 40)
RegisterSetPaths == {"line_user_id", "display_name", "picture_url", "updated_at"}
RegisterSetOnInsertPaths == {"created_at"}

\* the store rejects an update in which two operators name the same path
\* ("Updating the path 'created_at' would create a conflict at
\* 'created_at'"): find_one_and_update raises and writes nothing
UpdateConflict(setPaths, setOnInsertPaths) == setPaths \cap setOnInsertPaths # {}

\* the document create_pending_user's upsert leaves, were it accepted:
\* created_at is the utcnow() read first (database.py 53), updated_at the
\* utcnow() read after it (database.py 54); "$set"
\* writes every field of user_data
CreatePendingDoc(old, line_user_id, display_name, picture_url, now, later) ==
    [line_user_id |-> line_user_id, display_name |-> display_name,
     picture_url |-> picture_url, registered |-> FALSE,
     registration_code |-> NoneStr,
     created_at |-> StoreDate(now), updated_at |-> StoreDate(later)]

\* the document register_user's upsert of index.py leaves: updated_at is
\* the utcnow() read first (index.py 36), created_at of a new document the
\* utcnow() read after it (index.py 40)
RegisterDoc(old, line_user_id, display_name, picture_url, now, later) ==
    IF old = NoDoc
    THEN [line_user_id |-> line_user_id, display_name |-> display_name,
          picture_url |-> picture_url, updated_at |-> StoreDate(now),
          created_at |-> StoreDate(later)]
    ELSE [old EXCEPT !.display_name = display_name,
                     !.picture_url = picture_url,
                     !.updated_at = StoreDate(now)]

----------------------------------------------------------------------------
(* The outbound capabilities *)

\* the LINE profile of a user: displayName "Ann" and a picture URL "p"
NameAnn == <<65, 110, 110>>
PicUrl == <<112>>
NoProfile == [absent |-> TRUE]

\* get_user_profile: the profile, or None on any failure
ProfileResults(line_user_id) ==
    {NoProfile, [displayName |-> NameAnn, pictureUrl |-> PicUrl]}

\* AIService.get_response with GEMINI_API_KEY set: the generated text, or
\* the fixed apology on any failure of the request
AiReplies == {TextOk, AiErrorText}

\* the environments a request is served in: GEMINI_API_KEY set or not
AiKeys == {"set", "unset"}

\* the line_user_id as the text of a message
IdText(line_user_id) ==
    IF line_user_id = "U1" THEN <<85, 49>>
    ELSE IF line_user_id = "U2" THEN <<85, 50>>
    ELSE NoneStr

----------------------------------------------------------------------------
(* The webhook: src/app.py ("app") and src/api/index.py ("index"), two     *)
(* deployments of the endpoint over the same store                          *)

\* a request carries at most MaxBatch events
MaxBatch == 2

\* the webhook handlers fill chat_history up to MaxChat documents
MaxChat == 2

Procs == {1}
Variants == {"app", "index"}

\* the users whose events arrive
Senders == {"U1"}

\* the texts of the text messages. src/app.py tells the 4-digit codes and
\* the padded command from ordinary text; src/api/index.py does not (to it
\* they are ordinary text like "hi") and tells the register command, which
\* is ordinary text to src/app.py
Texts(variant) ==
    IF variant = "app"
    THEN {Code1234, Code5678, SlashClear, SlashClearCaps, SpaceSlashClear,
          TextHi}
    ELSE {SlashClear, SlashClearCaps, TextHi, RegisterCmd}

\* the events of a batch: text and image messages, follow events, an event of
\* a type the dispatcher does not know, and message and follow events
\* without their "source" key
Events(variant) ==
    [type : {"message"}, source : Senders, mtype : {"text"}, text : Texts(variant)]
    \cup [type : {"message"}, source : Senders, mtype : {"image"}, text : {<<>>}]
    \cup [type : {"follow"}, source : Senders, mtype : {"none"}, text : {<<>>}]
    \cup [type : {"unfollow"}, source : Senders, mtype : {"none"}, text : {<<>>}]
    \cup [type : {"message", "follow"}, source : {NoUser}, mtype : {"none"},
          text : {<<>>}]

AllEvents == UNION {Events(variant) : variant \in Variants}

\* the request bodies: no bytes, bytes that are no JSON, JSON that is no
\* object, and an object with its events
Bodies == {"empty", "garbage", "nonobject", "events"}

\* the X-Line-Signature header: absent, the base64 HMAC-SHA256 of the body
\* under the channel secret, another ASCII string, a string with a
\* character that is not ASCII
Signatures == {"", "valid", "invalid", "nonascii"}

NoEvent == [type |-> "none", source |-> NoUser, mtype |-> "none", text |-> <<>>]
NoReply == [api |-> "none", texts |-> <<>>]

IdleProc ==
    [pc |-> "idle", variant |-> "app", body |-> "empty", sig |-> "", n |-> 0,
     i |-> 0,
     verified |-> FALSE, resp |-> "none",
     ev |-> NoEvent, text |-> <<>>, user |-> NoDoc, profile |-> NoProfile,
     history |-> <<>>, ai |-> <<>>, reply |-> NoReply,
     stamp |-> None, aikey |-> "unread",
     k0 |-> 0, writes |-> 0, outs |-> <<>>, exc |-> "none", failed |-> 0]

\* hmac.compare_digest raises TypeError for a str that is not ASCII
CompareRaises(signature) == signature = "nonascii"

\* verify_signature (app.py 37-48, index.py 233-238)
VerifySignature(signature) == IF ~secret THEN TRUE ELSE signature = "valid"

\* the request ends with this response
Responding(pr, resp) == [pr EXCEPT !.pc = "respond", !.resp = resp]

\* the for loop is entered
Looping(pr) == [pr EXCEPT !.pc = "loop", !.i = 1]

\* webhook of app.py up to the for loop (app.py 143-167)
AppWebhookMut(pr, body) ==
    IF body \in {"empty", "garbage"} THEN Responding(pr, "ok")
    ELSE IF body = "nonobject" THEN Responding(pr, "500")
    ELSE IF pr.sig # ""
    THEN IF secret /\ CompareRaises(pr.sig)
         THEN Responding([pr EXCEPT !.verified = TRUE], "500")
         ELSE IF ~VerifySignature(pr.sig)
         THEN Responding([pr EXCEPT !.verified = TRUE], "400")
         ELSE IF pr.n = 0 THEN Responding([pr EXCEPT !.verified = TRUE], "ok")
         ELSE Looping([pr EXCEPT !.verified = TRUE])
    ELSE IF pr.n = 0 THEN Responding(pr, "ok")
    ELSE Looping(pr)
AppWebhook(pr, body) ==
    IF body \in {"empty", "garbage"} THEN Responding(pr, "ok")
    ELSE IF body = "nonobject" THEN Responding(pr, "500")
    ELSE IF pr.n = 0 THEN Responding(pr, "ok")
    ELSE IF pr.sig # ""
    THEN IF secret /\ CompareRaises(pr.sig)
         THEN Responding([pr EXCEPT !.verified = TRUE], "500")
         ELSE IF ~VerifySignature(pr.sig)
         THEN Responding([pr EXCEPT !.verified = TRUE], "400")
         ELSE Looping([pr EXCEPT !.verified = TRUE])
    ELSE Looping(pr)

\* webhook of index.py up to the for loop (index.py 293-315): a signature
\* that does not verify is logged and the events are processed
IndexWebhook(pr, body) ==
    IF body \in {"empty", "garbage"} THEN Responding(pr, "ok")
    ELSE IF body = "nonobject" THEN Responding(pr, "500")
    ELSE IF pr.n = 0 THEN Responding(pr, "ok")
    ELSE IF pr.sig # "" /\ secret
    THEN IF CompareRaises(pr.sig)
         THEN Responding([pr EXCEPT !.verified = TRUE], "500")
         ELSE Looping([pr EXCEPT !.verified = TRUE])
    ELSE Looping(pr)

\* a request arrives: its body is read and parsed, an empty batch is
\* acknowledged, the signature is checked
Receive(p, variant, body, n, signature) ==
    /\ procs[p].pc = "idle"
    /\ body # "events" => n = 0
    /\ LET pr == [IdleProc EXCEPT !.variant = variant, !.body = body,
                                  !.sig = signature, !.n = n]
       IN  procs' = [procs EXCEPT ![p] =
              IF variant = "app" THEN AppWebhook(pr, body) ELSE IndexWebhook(pr, body)]
    /\ UNCHANGED <<clock, regs, callers, chat, hist, users, secret, dbclock>>

\* the handling of the current event is over: with outcome "done" (the
\* handler returned), "raised" (the except clause of the loop caught an
\* exception and logged it) or "skipped" (no handler for the type); the loop
\* goes on with the next event
EndEventMut(pr, outcome) ==
    [pr EXCEPT !.pc = IF outcome = "raised" THEN "respond" ELSE "loop",
               !.resp = IF outcome = "raised" THEN "ok" ELSE pr.resp,
               !.i = pr.i + 1,
               !.failed = IF outcome = "raised" /\ pr.failed = 0 THEN pr.i ELSE pr.failed,
               !.text = <<>>, !.user = NoDoc, !.profile = NoProfile,
               !.history = <<>>, !.ai = <<>>, !.reply = NoReply,
               !.stamp = None]
EndEvent(pr, outcome) ==
    [pr EXCEPT !.pc = "loop", !.i = pr.i + 1,
               !.failed = IF outcome = "raised" /\ pr.failed = 0 THEN pr.i ELSE pr.failed,
               !.text = <<>>, !.user = NoDoc, !.profile = NoProfile,
               !.history = <<>>, !.ai = <<>>, !.reply = NoReply,
               !.stamp = None]

\* an exception leaves the handler
Raise(pr, exc) == EndEvent([pr EXCEPT !.exc = exc], "raised")

\* a reply is to be sent
Replying(pr, api, texts) ==
    [pr EXCEPT !.pc = "reply", !.reply = [api |-> api, texts |-> texts]]

\* handle_message_event of app.py after the user is resolved: the clear
\* command and the ordinary chat (app.py 103-109)
AppChat(pr) ==
    IF Lower(pr.text) = SlashClear
    THEN [pr EXCEPT !.pc = "clear"]
    ELSE [pr EXCEPT !.pc = "history"]

\* handle_message_event of app.py after the user is resolved: a text of
\* exactly four digits is tried as a registration code first (app.py 76)
AppRoute(pr) ==
    IF IsDigitStr(pr.text) /\ Len(pr.text) = 4
    THEN [pr EXCEPT !.pc = "claim"]
    ELSE AppChat(pr)

\* handle_message_event of app.py up to its first await (app.py 53-64)
AppMessageStartMut(pr) ==
    IF pr.ev.source = NoUser THEN Raise(pr, "KeyError")
    ELSE [pr EXCEPT !.text = Strip(pr.ev.text), !.pc = "get_user"]
AppMessageStart(pr) ==
    IF pr.ev.source = NoUser THEN Raise(pr, "KeyError")
    ELSE IF pr.ev.mtype # "text"
    THEN Replying(pr, "reply", <<UnsupportedText>>)
    ELSE [pr EXCEPT !.text = Strip(pr.ev.text), !.pc = "get_user"]

\* handle_message_event of index.py up to its first call (index.py 242-264)
IndexMessageStart(pr) ==
    IF pr.ev.source = NoUser THEN Raise(pr, "KeyError")
    ELSE IF pr.ev.mtype # "text"
    THEN Replying(pr, "reply", <<UnsupportedText>>)
    ELSE IF Lower(pr.ev.text) = SlashClear
    THEN [pr EXCEPT !.text = pr.ev.text, !.pc = "clear"]
    ELSE IF Strip(pr.ev.text) = RegisterCmd
    THEN Replying([pr EXCEPT !.text = pr.ev.text], "reply_messages",
                  <<UserIdPrompt, IdText(pr.ev.source)>>)
    ELSE [pr EXCEPT !.text = pr.ev.text, !.pc = "profile"]

\* handle_follow_event up to its first call (app.py 124-127, index.py 279-282)
FollowStart(pr) ==
    IF pr.ev.source = NoUser THEN Raise(pr, "KeyError")
    ELSE [pr EXCEPT !.pc = "profile"]

\* the event is a text message that the variant answers as ordinary chat,
\* appending two turns, unless something raises before
ChatsOn(variant, e) ==
    /\ e.type = "message" /\ e.mtype = "text" /\ e.source # NoUser
    /\ IF variant = "app"
       THEN Lower(Strip(e.text)) # SlashClear
       ELSE Lower(e.text) # SlashClear /\ Strip(e.text) # RegisterCmd

\* the body of the for loop up to the first await of the handler (app.py
\* 169-178, index.py 317-323). The events of the batch are drawn as the
\* loop reaches them. k0, writes, outs, exc and failed observe the handling:
\* the user's turns before it, the store writes, the outbound calls, the
\* exception, and the first event of the batch whose handling raised.
Dispatch(p, e) ==
    /\ procs[p].pc = "loop"
    /\ procs[p].i <= procs[p].n
    /\ e \in Events(procs[p].variant)
    /\ ChatsOn(procs[p].variant, e) => Len(chat) + 2 <= MaxChat
    /\ LET pr == [procs[p] EXCEPT !.ev = e, !.k0 = DeletedCount(chat, e.source),
                                  !.writes = 0, !.outs = <<>>, !.exc = "none"]
       IN  procs' = [procs EXCEPT ![p] =
              IF e.type = "message"
              THEN IF pr.variant = "app" THEN AppMessageStart(pr)
                   ELSE IndexMessageStart(pr)
              ELSE IF e.type = "follow" THEN FollowStart(pr)
              ELSE EndEvent(pr, "skipped")]
    /\ UNCHANGED <<clock, regs, callers, chat, hist, users, secret, dbclock>>

\* the for loop is over: the acknowledgment (app.py 184, index.py 327)
LoopEnd(p) ==
    /\ procs[p].pc = "loop"
    /\ procs[p].i > procs[p].n
    /\ procs' = [procs EXCEPT ![p] = Responding(procs[p], "ok")]
    /\ UNCHANGED <<clock, regs, callers, chat, hist, users, secret, dbclock>>

\* the response leaves; the process serves the next request
Respond(p) ==
    /\ procs[p].pc = "respond"
    /\ procs' = [procs EXCEPT ![p] = IdleProc]
    /\ UNCHANGED <<clock, regs, callers, chat, hist, users, secret, dbclock>>

\* find_one({"line_user_id": line_user_id}): the first document with the
\* identifier, or None
FindOne(line_user_id) ==
    IF users[line_user_id] = <<>> THEN NoDoc ELSE users[line_user_id][1]

\* UserRepository.get_user (app.py 64-67, database.py 87-91)
GetUser(p) ==
    /\ procs[p].pc = "get_user"
    /\ LET pr == [procs[p] EXCEPT !.user = FindOne(procs[p].ev.source)]
       IN  procs' = [procs EXCEPT ![p] =
              IF pr.user = NoDoc THEN [pr EXCEPT !.pc = "profile"] ELSE AppRoute(pr)]
    /\ UNCHANGED <<clock, regs, callers, chat, hist, users, secret, dbclock>>

\* LineService.get_user_profile (app.py 68 and 127, index.py 264 and 282),
\* and what follows it up to the first datetime.utcnow() of the upsert
\* (database.py 53, index.py 36), which the stamp keeps; the upsert reads
\* utcnow() once more (database.py 54, index.py 40) before it calls the
\* store, and the step of the store call draws that second instant
GetProfile(p) ==
    /\ procs[p].pc = "profile"
    /\ \E prof \in ProfileResults(procs[p].ev.source) :
          procs' = [procs EXCEPT ![p] =
             [@ EXCEPT !.profile = prof, !.stamp = clock,
                       !.outs = Append(@, [api |-> "get_profile", texts |-> <<>>]),
                       !.pc = IF procs[p].variant = "app" THEN "create" ELSE "register"]]
    /\ UNCHANGED <<clock, regs, callers, chat, hist, users, secret, dbclock>>

\* the display name and picture passed to the upsert: a follow event
\* defaults the name (app.py 128, index.py 283), a message event passes
\* None for a missing profile (app.py 71-72, index.py 265-268)
UpsertName(pr) ==
    IF pr.profile # NoProfile THEN pr.profile.displayName
    ELSE IF pr.ev.type = "follow" THEN DefaultName ELSE NoneStr
UpsertPicture(pr) ==
    IF pr.profile # NoProfile THEN pr.profile.pictureUrl ELSE NoneStr

\* what follows the upsert of the user, up to the next await: the welcome
\* of a follow event (app.py 134-137, index.py 286-288), the routing of a
\* message of app.py (app.py 76), the chat of a message of index.py
\* (index.py 270)
AfterUpsert(pr, doc) ==
    LET pw == [pr EXCEPT !.writes = @ + 1, !.stamp = None,
                         !.user = IF pr.variant = "app" THEN doc ELSE NoDoc]
    IN  IF pr.ev.type = "follow"
        THEN Replying(pw, "reply", <<WelcomeText(pr.variant, UpsertName(pr))>>)
        ELSE IF pr.variant = "app" THEN AppRoute(pw)
        ELSE [pw EXCEPT !.pc = "history"]

\* find_one_and_update(..., upsert=True) when the update is well formed: a
\* document with the identifier is updated in place, atomically; when none
\* matches the store goes on to insert the document new, and the insert is
\* a second step of the store (InsertUser): nothing makes the two one
\* atomic step for the identifier
Upsert(p, old, new) ==
    LET pr == procs[p]
        u == pr.ev.source
    IN  IF old # NoDoc
        THEN /\ users' = [users EXCEPT ![u] = [@ EXCEPT ![1] = new]]
             /\ procs' = [procs EXCEPT ![p] = AfterUpsert(pr, new)]
        ELSE /\ procs' = [procs EXCEPT ![p] = [pr EXCEPT !.user = new, !.pc = "insert"]]
             /\ UNCHANGED users

\* UserRepository.create_pending_user, called by handle_message_event for
\* an unknown user (app.py 69-73) and by handle_follow_event (app.py
\* 130-137): the store rejects the update, or matches the identifier. The
\* function read utcnow() for created_at (the stamp of the process) and
\* then, some time later, for updated_at
CreatePendingUser(p) ==
    /\ procs[p].pc = "create"
    /\ LET pr == procs[p]
           u == pr.ev.source
       IN  IF UpdateConflict(CreateSetPaths, CreateSetOnInsertPaths)
           THEN /\ procs' = [procs EXCEPT ![p] = Raise(pr, "OperationFailure")]
                /\ UNCHANGED users
           ELSE \E later \in ReadsSince(pr.stamp) :
                  Upsert(p, FindOne(u),
                         CreatePendingDoc(FindOne(u), u, UpsertName(pr),
                                          UpsertPicture(pr), pr.stamp, later))
    /\ UNCHANGED <<clock, regs, callers, chat, hist, secret, dbclock>>

\* UserRepository.register_user of index.py, called by handle_message_event
\* (index.py 265-268) and by handle_follow_event (index.py 285-288): the
\* store rejects the update, or matches the identifier. The function read
\* utcnow() twice before the call: first for updated_at (the stamp of the
\* process), then, some time later, for created_at
RegisterUser(p) ==
    /\ procs[p].pc = "register"
    /\ LET pr == procs[p]
           u == pr.ev.source
       IN  IF UpdateConflict(RegisterSetPaths, RegisterSetOnInsertPaths)
           THEN /\ procs' = [procs EXCEPT ![p] = Raise(pr, "OperationFailure")]
                /\ UNCHANGED users
           ELSE \E later \in ReadsSince(pr.stamp) :
                  Upsert(p, FindOne(u),
                         RegisterDoc(FindOne(u), u, UpsertName(pr),
                                     UpsertPicture(pr), pr.stamp, later))
    /\ UNCHANGED <<clock, regs, callers, chat, hist, secret, dbclock>>

\* the insert of an upsert that matched no document (database.py 58-65,
\* index.py 38-43): the document is added, whatever was inserted for the
\* identifier since the match
InsertUser(p) ==
    /\ procs[p].pc = "insert"
    /\ LET pr == procs[p]
           u == pr.ev.source
       IN  /\ users' = [users EXCEPT ![u] = Append(@, pr.user)]
           /\ procs' = [procs EXCEPT ![p] = AfterUpsert(pr, pr.user)]
    /\ UNCHANGED <<clock, regs, callers, chat, hist, secret, dbclock>>

\* the parameters of find_and_claim_registration (database.py 153) and the
\* keywords handle_message_event passes to it (app.py 82-87)
ClaimParameters == {"registration_code", "line_user_id"}
AppClaimKeywords ==
    {"registration_code", "line_user_id", "display_name", "picture_url"}

\* a call with a keyword the function does not take raises TypeError before
\* the function runs
CallRaises(keywords, parameters) == ~(keywords \subseteq parameters)

\* the registration branch of handle_message_event (app.py 76-98): the call
\* of find_and_claim_registration, then the confirmation, or the fall
\* through to the ordinary chat when nothing was claimed
ClaimCode(p) ==
    /\ procs[p].pc = "claim"
    /\ LET pr == procs[p]
           now == IsoFormat(clock)
           matching == {r \in RegIds : ClaimFilter(regs[r], pr.text, now)}
       IN  IF CallRaises(AppClaimKeywords, ClaimParameters)
           THEN /\ procs' = [procs EXCEPT ![p] = Raise(pr, "TypeError")]
                /\ UNCHANGED regs
           ELSE IF matching = {}
           THEN /\ procs' = [procs EXCEPT ![p] = AppChat(pr)]
                /\ UNCHANGED regs
           ELSE \E r \in matching :
                  /\ regs' = [regs EXCEPT ![r] = ClaimUpdate(regs[r], pr.ev.source, now)]
                  /\ procs' = [procs EXCEPT ![p] =
                        Replying([pr EXCEPT !.writes = @ + 1], "reply",
                                 <<ConfirmText(DefaultShop, pr.user.display_name)>>)]
    /\ UNCHANGED <<clock, callers, chat, hist, users, secret, dbclock>>

\* the clear command (app.py 104-105, index.py 253-254)
ClearHistory(p) ==
    /\ procs[p].pc = "clear"
    /\ chat' = Cleared(chat, procs[p].ev.source)
    /\ procs' = [procs EXCEPT ![p] =
          Replying([@ EXCEPT !.writes = @ + 1], "reply",
                   <<ClearedText(DeletedCount(chat, procs[p].ev.source))>>)]
    /\ UNCHANGED <<clock, regs, callers, hist, users, secret, dbclock>>

\* ChatHistoryRepository.get_history(user_id, limit=10) (app.py 109,
\* index.py 270)
GetHistory(p) ==
    /\ procs[p].pc = "history"
    /\ \E h \in HistoryResults(chat, procs[p].ev.source, HistoryLimit) :
          procs' = [procs EXCEPT ![p] = [@ EXCEPT !.history = h, !.pc = "ai"]]
    /\ UNCHANGED <<clock, regs, callers, chat, hist, users, secret, dbclock>>

\* AIService.get_response(user_message, history) (app.py 112, index.py 271)
\* and what follows it up to the insert of the user's turn. Without
\* GEMINI_API_KEY the fixed text comes back and no request is made
\* (ai_service.py 21-22, index.py 93-94); the key is read from the
\* environment of the deployment that serves the request, the same for all
\* the events of the request. With the key the request to the backend is
\* an outbound call. add_message then reads datetime.utcnow() for the
\* user's turn (database.py 117, index.py 64) before it calls the store.
GetResponse(p) ==
    /\ procs[p].pc = "ai"
    /\ \E key \in AiKeys :
        \E a \in (IF key = "set" THEN AiReplies ELSE {AiNoKeyText}) :
          /\ procs[p].aikey \in {"unread", key}
          /\ procs' = [procs EXCEPT ![p] =
                [@ EXCEPT !.ai = a, !.history = <<>>, !.aikey = key,
                          !.outs = IF key = "set"
                                   THEN Append(@, [api |-> "generate",
                                                   texts |-> <<procs[p].text>>])
                                   ELSE @,
                          !.stamp = clock,
                          !.pc = "add_user"]]
    /\ UNCHANGED <<clock, regs, callers, chat, hist, users, secret, dbclock>>

\* the insert_one of add_message(user_id, "user", user_message) (app.py
\* 115, index.py 273), with the created_at read before the call: the store
\* applies the insert while the handler waits for the answer. The stamp
\* keeps the instant of the insert, after which the handler resumes and
\* add_message of the assistant's turn reads datetime.utcnow()
AddUserTurn(p) ==
    /\ procs[p].pc = "add_user"
    /\ chat' = Append(chat, TurnDoc(procs[p].ev.source, "user", procs[p].text,
                                    procs[p].stamp))
    /\ procs' = [procs EXCEPT ![p] =
          [@ EXCEPT !.writes = @ + 1, !.stamp = clock, !.pc = "add_assistant"]]
    /\ UNCHANGED <<clock, regs, callers, hist, users, secret, dbclock>>

\* the insert_one of add_message(user_id, "assistant", ai_response) (app.py
\* 116, index.py 274), with the created_at the handler read at some instant
\* after the insert of the user's turn and before this insert
AddAssistantTurn(p) ==
    /\ procs[p].pc = "add_assistant"
    /\ \E created_at \in ReadsSince(procs[p].stamp) :
          chat' = Append(chat, TurnDoc(procs[p].ev.source, "assistant", procs[p].ai,
                                      created_at))
    /\ procs' = [procs EXCEPT ![p] =
          Replying([@ EXCEPT !.writes = @ + 1, !.stamp = None], "reply",
                   <<procs[p].ai>>)]
    /\ UNCHANGED <<clock, regs, callers, hist, users, secret, dbclock>>

\* LineService.reply_message / reply_messages: the call is made, its
\* result (True or False) is not looked at, and the handler returns
SendReply(p) ==
    /\ procs[p].pc = "reply"
    /\ procs' = [procs EXCEPT ![p] =
          EndEvent([@ EXCEPT !.outs = Append(@, procs[p].reply)], "done")]
    /\ UNCHANGED <<clock, regs, callers, chat, hist, users, secret, dbclock>>

\* the awaits on the store
StorePcs ==
    {"get_user", "create", "register", "insert", "clear", "history",
     "add_user", "add_assistant"}

\* a store call fails (the store is unreachable, the call times out): the
\* driver raises, nothing is written
StoreFault(p) ==
    /\ procs[p].pc \in StorePcs
    /\ procs' = [procs EXCEPT ![p] = Raise(procs[p], "StoreError")]
    /\ UNCHANGED <<clock, regs, callers, chat, hist, users, secret, dbclock>>

----------------------------------------------------------------------------
(* Direct callers of UserRepository of src/database.py *)

\* the document register_user of database.py leaves of the document old
\* (database.py 75-82): registered_at is the utcnow() read first (database.py
\* 79), updated_at the utcnow() read after it (database.py 80)
DbRegisterDoc(old, registration_code, now, later) ==
    [registered |-> TRUE, registration_code |-> registration_code,
     registered_at |-> StoreDate(now), updated_at |-> StoreDate(later)] @@ old

\* create_pending_user up to its store call: the caller builds user_data,
\* reading datetime.utcnow() first at this instant and again after it
\* (database.py 47-55), and suspends on the awaited find_one_and_update
DbCreateCall(p, line_user_id, display_name, picture_url) ==
    /\ callers[p].pc = "idle"
    /\ callers' = [callers EXCEPT ![p] =
          [pc |-> "create", user |-> line_user_id, display_name |-> display_name,
           picture_url |-> picture_url, now |-> clock]]
    /\ UNCHANGED <<clock, regs, chat, hist, users, secret, procs, dbclock>>

\* the find_one_and_update of create_pending_user (database.py 57-65): the
\* store rejects the update, whose $set and $setOnInsert both name
\* created_at, and writes nothing; an update it accepted would replace the
\* fields of the first document of the user, or insert the document
DbCreatePendingUser(p) ==
    /\ callers[p].pc = "create"
    /\ LET c == callers[p]
       IN  IF UpdateConflict(CreateSetPaths, CreateSetOnInsertPaths)
           THEN /\ callers' = [callers EXCEPT ![p] =
                      [pc |-> "done", raised |-> "OperationFailure", result |-> NoDoc]]
                /\ UNCHANGED users
           ELSE \E later \in ReadsSince(c.now) :
                  LET new == CreatePendingDoc(FindOne(c.user), c.user, c.display_name,
                                              c.picture_url, c.now, later)
                  IN  /\ users' = [users EXCEPT ![c.user] =
                            IF @ = <<>> THEN <<new>> ELSE [@ EXCEPT ![1] = new]]
                      /\ callers' = [callers EXCEPT ![p] =
                            [pc |-> "done", raised |-> "none", result |-> new]]
    /\ UNCHANGED <<clock, regs, chat, hist, secret, procs, dbclock>>

\* register_user of database.py up to its store call: the caller reads
\* datetime.utcnow() for registered_at at this instant and for updated_at
\* after it (database.py 79-80) and suspends on the awaited
\* find_one_and_update
DbRegisterCall(p, line_user_id, registration_code) ==
    /\ callers[p].pc = "idle"
    /\ callers' = [callers EXCEPT ![p] =
          [pc |-> "register", user |-> line_user_id, code |-> registration_code,
           now |-> clock]]
    /\ UNCHANGED <<clock, regs, chat, hist, users, secret, procs, dbclock>>

\* the find_one_and_update of register_user of database.py (database.py
\* 73-84), without upsert: the first document of the user is marked
\* registered with the code and returned; with no document nothing is
\* written and None is returned
DbRegisterUser(p) ==
    /\ callers[p].pc = "register"
    /\ LET c == callers[p]
           old == FindOne(c.user)
       IN  IF old = NoDoc
           THEN /\ callers' = [callers EXCEPT ![p] =
                      [pc |-> "done", raised |-> "none", result |-> NoDoc]]
                /\ UNCHANGED users
           ELSE \E later \in ReadsSince(c.now) :
                  LET new == DbRegisterDoc(old, c.code, c.now, later)
                  IN  /\ users' = [users EXCEPT ![c.user] = [@ EXCEPT ![1] = new]]
                      /\ callers' = [callers EXCEPT ![p] =
                            [pc |-> "done", raised |-> "none", result |-> new]]
    /\ UNCHANGED <<clock, regs, chat, hist, secret, procs, dbclock>>

\* get_user of database.py (database.py 87-91), called directly
DbGetUser(p, line_user_id) ==
    /\ callers[p].pc = "idle"
    /\ callers' = [callers EXCEPT ![p] =
          [pc |-> "done", raised |-> "none", result |-> FindOne(line_user_id)]]
    /\ UNCHANGED <<clock, regs, chat, hist, users, secret, procs, dbclock>>

----------------------------------------------------------------------------
(* The specifications *)

Epoch == [s |-> 0, us |-> 0]

\* the last instant of the clock
LastTime == [s |-> MaxTick \div 2, us |-> MaxTick % 2]

NoUsers == [u \in Users |-> <<>>]
IdleProcs == [p \in Procs |-> IdleProc]

\* two records of the back office: code 1234 expiring at the last instant
\* of the clock, code 5678 expired from the start
SomeRegs ==
    [r \in RegIds |->
        [code |-> IF r = 1 THEN Code1234 ELSE Code5678, status |-> "pending",
         expires_at |-> IsoFormat(IF r = 1 THEN LastTime ELSE Epoch),
         line_user_id |-> NoUser, completed_at |-> NoTime]]

\* direct callers of find_and_claim_registration over any two pending records
InitClaim ==
    /\ clock = Epoch
    /\ dbclock = Epoch
    /\ regs \in [RegIds -> PendingRecords]
    /\ callers = [p \in Callers |-> IdleCaller]
    /\ chat = <<>>
    /\ hist = [op |-> "none"]
    /\ users = NoUsers
    /\ secret = FALSE
    /\ procs = IdleProcs

NextClaim ==
    \/ \E p \in Callers, c \in RegCodes, u \in Users : ClaimCall(p, c, u)
    \/ \E p \in Callers : ClaimStore(p)
    \/ \E p \in Callers : ClaimReturn(p)
    \/ Tick

SpecClaim == InitClaim /\ [][NextClaim]_vars

\* direct callers of ChatHistoryRepository; add_message calls overlap
InitHistory ==
    /\ clock = Epoch
    /\ dbclock = Epoch
    /\ regs = SomeRegs
    /\ callers = [p \in Callers |-> IdleCaller]
    /\ chat = <<>>
    /\ hist = [op |-> "none"]
    /\ users = NoUsers
    /\ secret = FALSE
    /\ procs = IdleProcs

NextHistory ==
    \/ \E p \in Callers, u \in Users, role \in Roles, content \in {TextHi, TextOk} :
          HistAddCall(p, u, role, content)
    \/ \E p \in Callers : HistAdd(p)
    \/ \E u \in Users, limit \in (1..MaxTurns) \cup {HistoryLimit} : HistGet(u, limit)
    \/ \E u \in Users : HistClear(u)
    \/ Tick

SpecHistory == InitHistory /\ [][NextHistory]_vars

\* webhook requests served one after the other, by either deployment
InitWebhook ==
    /\ clock = Epoch
    /\ dbclock = Epoch
    /\ regs = SomeRegs
    /\ callers = [p \in Callers |-> IdleCaller]
    /\ chat = <<>>
    /\ hist = [op |-> "none"]
    /\ users = NoUsers
    /\ secret \in BOOLEAN
    /\ procs = IdleProcs

NextWebhook ==
    \/ \E p \in Procs, variant \in Variants, body \in Bodies, n \in 0..MaxBatch,
          signature \in Signatures : Receive(p, variant, body, n, signature)
    \/ \E p \in Procs, e \in AllEvents : Dispatch(p, e)
    \/ \E p \in Procs : LoopEnd(p)
    \/ \E p \in Procs : Respond(p)
    \/ \E p \in Procs : GetUser(p)
    \/ \E p \in Procs : GetProfile(p)
    \/ \E p \in Procs : CreatePendingUser(p)
    \/ \E p \in Procs : RegisterUser(p)
    \/ \E p \in Procs : InsertUser(p)
    \/ \E p \in Procs : ClaimCode(p)
    \/ \E p \in Procs : ClearHistory(p)
    \/ \E p \in Procs : GetHistory(p)
    \/ \E p \in Procs : GetResponse(p)
    \/ \E p \in Procs : AddUserTurn(p)
    \/ \E p \in Procs : AddAssistantTurn(p)
    \/ \E p \in Procs : SendReply(p)
    \/ \E p \in Procs : StoreFault(p)
    \/ Tick

SpecWebhook == InitWebhook /\ [][NextWebhook]_vars

----------------------------------------------------------------------------
(* Properties of find_and_claim_registration, under SpecClaim *)

\* the instant an ISO string of the model denotes
ParseIso(str) == CHOOSE t \in Times : IsoFormat(t) = str

Done(p) == callers[p].pc = "done"

\* C1: two concurrent attempts with the same code, made while exactly one
\* record with that code was pending and unexpired for both: exactly one
\* attempt returns the record, the other returns None, and the record ends
\* completed, bound to the user of the attempt that returned it and stamped
\* with that attempt's time.
C1_ExactlyOneClaims ==
    \A p \in Callers, q \in Callers, r \in RegIds :
        ( /\ p < q /\ Done(p) /\ Done(q)
          /\ callers[p].code = callers[q].code
          /\ callers[p].open = {r} /\ callers[q].open = {r} )
        => \E w \in {p, q} :
              LET l == CHOOSE x \in {p, q} : x # w
              IN  /\ callers[w].id = r
                  /\ callers[w].result = regs[r]
                  /\ callers[l].result = None
                  /\ regs[r].status = "completed"
                  /\ regs[r].line_user_id = callers[w].user
                  /\ regs[r].completed_at = callers[w].now

\* C1 witness: both attempts of a race for one record are over, made by
\* different users.
C1_Witness ==
    \E r \in RegIds :
        /\ Done(1) /\ Done(2)
        /\ callers[1].code = callers[2].code
        /\ callers[1].user # callers[2].user
        /\ callers[1].open = {r} /\ callers[2].open = {r}
        /\ callers[2].id = r

\* C2: a store step of an attempt never changes a record that is already
\* completed and never returns it; when every record carrying the attempt's
\* code is completed the attempt returns None and writes nothing.
C2_CompletedNeverClaimed ==
    [][\A p \in Callers :
          (callers[p].pc = "update" /\ callers'[p].pc = "done") =>
             /\ \A r \in RegIds :
                   regs[r].status = "completed" =>
                      /\ regs'[r] = regs[r]
                      /\ callers'[p].id # r
             /\ ( /\ \E r \in RegIds : regs[r].code = callers[p].code
                  /\ \A r \in RegIds : regs[r].code = callers[p].code
                                            => regs[r].status = "completed" )
                => (callers'[p].result = None /\ regs' = regs)]_vars

\* C2 witness: an attempt returned None on a code whose only record had been
\* completed by an earlier attempt and was not yet expired for this one.
C2_Witness ==
    \E p \in Callers, r \in RegIds :
        /\ Done(p) /\ callers[p].result = None
        /\ regs[r].code = callers[p].code
        /\ \A r2 \in RegIds \ {r} : regs[r2].code # callers[p].code
        /\ regs[r].status = "completed"
        /\ regs[r].line_user_id # callers[p].user
        /\ TimeLt(callers[p].called_at, ParseIso(regs[r].expires_at))

\* C3: a record is claimed only by an attempt whose clock reading (the
\* current time of the claim) is strictly before the record's expiry: every
\* completed record was stamped with an instant strictly before its expiry,
\* every returned record expires strictly after the attempt's reading, and
\* an attempt whose code is carried only by records that expired at or before
\* its reading returns None.
C3_ExpiredNeverClaimed ==
    /\ \A r \in RegIds :
          IF regs[r].status = "completed"
          THEN TimeLt(ParseIso(regs[r].completed_at), ParseIso(regs[r].expires_at))
          ELSE regs[r].line_user_id = NoUser /\ regs[r].completed_at = NoTime
    /\ \A p \in Callers :
          Done(p) =>
             /\ callers[p].result # None =>
                   TimeLt(callers[p].called_at, ParseIso(callers[p].result.expires_at))
             /\ (\A r \in RegIds :
                    regs[r].code = callers[p].code =>
                       TimeLe(ParseIso(regs[r].expires_at), callers[p].called_at))
                => callers[p].result = None

\* C3 witness: an attempt made at the very instant a pending record expires
\* returned None and the record is still pending and unbound.
C3_Witness ==
    \E p \in Callers, r \in RegIds :
        /\ Done(p) /\ callers[p].result = None
        /\ regs[r].code = callers[p].code
        /\ regs[r].status = "pending" /\ regs[r].line_user_id = NoUser
        /\ ParseIso(regs[r].expires_at) = callers[p].called_at
        /\ callers[p].called_at.us # 0

----------------------------------------------------------------------------
(* Properties of ChatHistoryRepository, under SpecHistory *)

\* the last n of a sequence, in its order
----------------------------------------------------------------------------
(* The message handler *)

\* the handling of the event procs[p].ev is over; nothing has touched the
\* store or the observations of the handling since
Handled(p) == procs[p].pc \in {"loop", "respond"} /\ procs[p].ev # NoEvent

\* a text message from a user
TextMessage(e) == e.type = "message" /\ e.mtype = "text" /\ e.source # NoUser

\* the text is exactly four digits
FourDigits(text) == IsDigitStr(text) /\ Len(text) = 4

\* no record is claimable with the code at any instant
NeverMatches(code) ==
    \A r \in RegIds, t \in Times : ~ClaimFilter(regs[r], code, IsoFormat(t))

\* the outbound call that sends the texts as the reply
ReplyOf(texts) == [api |-> "reply", texts |-> texts]

\* the handling that has just ended sent a request to the generative
\* backend
Generated(p) == \E k \in 1..Len(procs[p].outs) : procs[p].outs[k].api = "generate"

\* the handling that has just ended answered as ordinary chat: it appended
\* a user turn with the text and an assistant turn to the k0 turns of the
\* user, and sent the assistant's text, which is not empty, as the reply
ChattedOn(p, text) ==
    LET pr == procs[p]
        t == TurnsOf(chat, pr.ev.source)
        k == Len(t)
    IN  /\ k = pr.k0 + 2
        /\ t[k - 1].role = "user" /\ t[k - 1].content = text
        /\ t[k].role = "assistant" /\ t[k].content # <<>>
        /\ pr.outs # <<>>
        /\ pr.outs[Len(pr.outs)] = ReplyOf(<<t[k].content>>)

\* C4: a text message of src/app.py whose text is exactly four digits and
\* matches no pending, unexpired record is answered as ordinary chat: a user
\* turn with the digits and an assistant turn are stored and a non-empty
\* reply is sent. (Store outages and the failing upsert of an unknown user
\* are left aside.)
C4_NoMatchFallsThrough ==
    \A p \in Procs :
        (/\ Handled(p) /\ procs[p].variant = "app"
         /\ TextMessage(procs[p].ev)
         /\ FourDigits(Strip(procs[p].ev.text))
         /\ NeverMatches(Strip(procs[p].ev.text))
         /\ procs[p].exc \notin {"StoreError", "OperationFailure"})
        => procs[p].exc = "none" /\ ChattedOn(p, Strip(procs[p].ev.text))

\* the records the code of the handler at its claim would take
Claimable(p) ==
    {r \in RegIds : ClaimFilter(regs[r], procs[p].text, IsoFormat(clock))}

\* C5: when the registration branch of src/app.py runs with a code that a
\* pending, unexpired record carries, that step claims the record for the
\* sender and leaves the handler with the confirmation as its one reply to
\* send: no turn is appended and the generative backend has not been called.
C5_MatchingCodeClaims ==
    [][\A p \in Procs :
          (/\ procs[p].pc = "claim"
           /\ Claimable(p) # {}
           /\ procs'[p] # procs[p])
          => /\ \E r \in Claimable(p) :
                   /\ regs'[r].status = "completed"
                   /\ regs'[r].line_user_id = procs[p].ev.source
             /\ procs'[p].pc = "reply"
             /\ procs'[p].reply.api = "reply"
             /\ Len(procs'[p].reply.texts) = 1
             /\ procs'[p].exc = "none"
             /\ ~Generated(p)
             /\ chat' = chat]_vars

LastN(seq, n) == IF Len(seq) <= n THEN seq ELSE SubSeq(seq, Len(seq) - n + 1, Len(seq))

\* C6: get_history(user, N) returns the user's most recent min(k, N) turns
\* in the order they were appended, for every sequence of appends, also
\* appends whose creation timestamps do not differ.
C6_HistoryChronological ==
    hist.op = "get" => hist.result = LastN(TurnsOf(chat, hist.user), hist.limit)

\* C7: a text message whose text equals "/clear" case-insensitively,
\* arriving when the user's history holds k turns, deletes the k turns,
\* sends one reply, which carries the count k, appends no turn and makes no
\* generative call; get_history for the user then returns the empty
\* sequence. (Store outages are left aside.)
C7_ClearDeletesAndCounts ==
    \A p \in Procs :
        (/\ Handled(p) /\ TextMessage(procs[p].ev)
         /\ Lower(procs[p].ev.text) = SlashClear
         /\ procs[p].exc # "StoreError")
        => /\ procs[p].exc = "none"
           /\ DeletedCount(chat, procs[p].ev.source) = 0
           /\ HistoryResults(chat, procs[p].ev.source, HistoryLimit) = {<<>>}
           /\ ~Generated(p)
           /\ \E k \in 1..Len(procs[p].outs) :
                 procs[p].outs[k] = ReplyOf(<<ClearedText(procs[p].k0)>>)

\* C8: a request whose event batch is empty is answered with the
\* acknowledgment, before any signature check, with no store write and no
\* outbound call, whatever its signature header.
C8_EmptyBatchAcknowledged ==
    \A p \in Procs :
        (procs[p].pc = "respond" /\ procs[p].body = "events" /\ procs[p].n = 0)
        => /\ procs[p].resp = "ok"
           /\ ~procs[p].verified
           /\ procs[p].i = 0
           /\ procs[p].writes = 0
           /\ procs[p].outs = <<>>

\* an empty batch with a signature that does not verify under the configured
\* secret is acknowledged by src/app.py
C8_Witness ==
    \E p \in Procs :
        /\ procs[p].pc = "respond" /\ procs[p].body = "events" /\ procs[p].n = 0
        /\ procs[p].variant = "app" /\ secret /\ procs[p].sig = "invalid"
        /\ procs[p].resp = "ok"

\* C9: a message event whose message type is not text makes no store write
\* and makes exactly one outbound call, the reply with the fixed
\* unsupported-type text.
C9_NonTextOnlyReplies ==
    \A p \in Procs :
        (/\ Handled(p)
         /\ procs[p].ev.type = "message" /\ procs[p].ev.source # NoUser
         /\ procs[p].ev.mtype # "text")
        => /\ procs[p].writes = 0
           /\ procs[p].exc = "none"
           /\ procs[p].outs = <<ReplyOf(<<UnsupportedText>>)>>
           /\ DeletedCount(chat, procs[p].ev.source) = procs[p].k0

\* an image message from a user who has a directory record and a stored
\* turn was answered by src/app.py
C9_Witness ==
    \E p \in Procs :
        /\ Handled(p) /\ procs[p].variant = "app"
        /\ procs[p].ev.type = "message" /\ procs[p].ev.mtype = "image"
        /\ users[procs[p].ev.source] # <<>>
        /\ procs[p].k0 > 0
        /\ procs[p].outs = <<ReplyOf(<<UnsupportedText>>)>>

\* C10: once the loop over a batch is entered, every event of the batch is
\* handled, also after the handling of an earlier event raised; an event of
\* a type without a handler is skipped with no store write and no outbound
\* call.
C10_EventsIndependent ==
    \A p \in Procs :
        /\ (procs[p].pc = "respond" /\ procs[p].i >= 1)
           => procs[p].i = procs[p].n + 1
        /\ (procs[p].pc \in {"loop", "respond"} /\ procs[p].failed # 0)
           => procs[p].failed < procs[p].i /\ procs[p].resp \in {"none", "ok"}
        /\ (Handled(p) /\ procs[p].ev.type \notin {"message", "follow"})
           => /\ procs[p].writes = 0
              /\ procs[p].outs = <<>>
              /\ procs[p].exc = "none"

\* the handling of the first event of a batch of two raised, and the second
\* event was handled to its reply
C10_Witness ==
    \E p \in Procs :
        /\ procs[p].pc = "respond" /\ procs[p].n = 2 /\ procs[p].failed = 1
        /\ procs[p].i = 3
        /\ procs[p].ev.type = "message" /\ procs[p].exc = "none"
        /\ procs[p].outs # <<>>

----------------------------------------------------------------------------
(* The endpoint's response *)

\* C11: the response of the webhook endpoint is always the acknowledgment,
\* whatever the body, the signature header and the outcome of the handlers.
C11_AlwaysAcknowledged ==
    \A p \in Procs : procs[p].pc = "respond" => procs[p].resp = "ok"

----------------------------------------------------------------------------
(* The user directory *)

\* a field of a document, or its absence
Field(doc, f) ==
    IF f \in DOMAIN doc THEN [present |-> TRUE, value |-> doc[f]]
    ELSE [present |-> FALSE]

\* the registration state and the creation time of a directory record
StateFields == {"registered", "registration_code", "created_at"}

\* C12: create_pending_user(userId, name, avatar) is an upsert: with no
\* record for userId it inserts one with state pending; with a record it
\* refreshes the display name, the avatar and the update timestamp and
\* leaves the registered flag, the registration code and the creation
\* timestamp as they were.
C12_CreatePendingUpserts ==
    [][\A p \in Callers :
          (callers[p].pc = "create" /\ callers'[p].pc = "done")
          => LET c == callers[p]
                 old == FindOne(c.user)
                 docs == users'[c.user]
             IN  /\ callers'[p].raised = "none"
                 /\ Len(docs) = (IF old = NoDoc THEN 1 ELSE Len(users[c.user]))
                 /\ docs[1].display_name = c.display_name
                 /\ docs[1].picture_url = c.picture_url
                 /\ docs[1].updated_at \in {StoreDate(t) : t \in ReadsSince(c.now)}
                 /\ IF old = NoDoc
                    THEN /\ docs[1].registered = FALSE
                         /\ docs[1].registration_code = NoneStr
                         /\ docs[1].created_at \in {StoreDate(t) : t \in ReadsSince(c.now)}
                    ELSE \A f \in StateFields :
                            Field(docs[1], f) = Field(old, f)]_vars

\* a contact of a user: a text message or a follow event
Contact(e) == TextMessage(e) \/ (e.type = "follow" /\ e.source # NoUser)

\* the record is in state pending: it carries registered = False, as the
\* user_data of create_pending_user does (database.py 51)
Pending(doc) == Field(doc, "registered") = [present |-> TRUE, value |-> FALSE]

\* the handling that has just ended fetched the profile of the user, which
\* every refresh of the display name and the avatar starts with
FetchedProfile(p) ==
    \E k \in 1..Len(procs[p].outs) : procs[p].outs[k].api = "get_profile"

\* C13: after a contact of a user has been handled the directory holds a
\* pending record of the user, created if it was absent and refreshed from
\* the user's profile if it was present; and no step deletes a record.
\* (Handlings cut short by an unreachable store are left aside.)
C13_RecordLifecycle ==
    /\ [](\A p \in Procs :
            (Handled(p) /\ Contact(procs[p].ev) /\ procs[p].exc # "StoreError")
            => /\ FindOne(procs[p].ev.source) # NoDoc
               /\ Pending(FindOne(procs[p].ev.source))
               /\ FetchedProfile(p))
    /\ [][\A u \in Users : Len(users'[u]) >= Len(users[u])]_vars

----------------------------------------------------------------------------
(* Concurrent requests: the platform delivers webhook calls concurrently;  *)
(* the handlers of src/app.py suspend at every await, and two instances of *)
(* src/api/index.py run side by side                                       *)

\* two requests in progress at a time
ConcurrentProcs == {1, 2}

\* the events of the concurrent requests: an ordinary text, the clear
\* command and a follow event, all of one user
ConcurrentEvents ==
    [type : {"message"}, source : Senders, mtype : {"text"},
     text : {TextHi, SlashClear}]
    \cup [type : {"follow"}, source : Senders, mtype : {"none"}, text : {<<>>}]

\* the directory with a record of the sender, as register_user of
\* src/api/index.py leaves it
KnownUsers ==
    [u \in Users |->
        IF u \in Senders THEN <<RegisterDoc(NoDoc, u, NameAnn, PicUrl, Epoch, Epoch)>>
        ELSE <<>>]

\* the sender is unknown or known; no secret is configured
InitConcurrent ==
    /\ clock = Epoch
    /\ dbclock = Epoch
    /\ regs = SomeRegs
    /\ callers = [p \in Callers |-> IdleCaller]
    /\ chat = <<>>
    /\ hist = [op |-> "none"]
    /\ users \in {NoUsers, KnownUsers}
    /\ secret = FALSE
    /\ procs = [p \in ConcurrentProcs |-> IdleProc]

\* each request carries one event and no signature header; the requests
\* overlap within one instant of the clock
NextConcurrent ==
    \/ \E p \in ConcurrentProcs, variant \in Variants :
          Receive(p, variant, "events", 1, "")
    \/ \E p \in ConcurrentProcs, e \in ConcurrentEvents : Dispatch(p, e)
    \/ \E p \in ConcurrentProcs : LoopEnd(p)
    \/ \E p \in ConcurrentProcs : Respond(p)
    \/ \E p \in ConcurrentProcs : GetUser(p)
    \/ \E p \in ConcurrentProcs : GetProfile(p)
    \/ \E p \in ConcurrentProcs : CreatePendingUser(p)
    \/ \E p \in ConcurrentProcs : RegisterUser(p)
    \/ \E p \in ConcurrentProcs : InsertUser(p)
    \/ \E p \in ConcurrentProcs : ClearHistory(p)
    \/ \E p \in ConcurrentProcs : GetHistory(p)
    \/ \E p \in ConcurrentProcs : GetResponse(p)
    \/ \E p \in ConcurrentProcs : AddUserTurn(p)
    \/ \E p \in ConcurrentProcs : AddAssistantTurn(p)
    \/ \E p \in ConcurrentProcs : SendReply(p)
    \/ \E p \in ConcurrentProcs : StoreFault(p)

SpecConcurrent == InitConcurrent /\ [][NextConcurrent]_vars

\* the events of two overlapping chats: an ordinary text of one user
ChatEvents ==
    [type : {"message"}, source : Senders, mtype : {"text"}, text : {TextHi}]

\* two requests at a time, each with one ordinary text of the same user,
\* while time passes: a handler reads the clock for a turn, suspends on the
\* insert, and the other handler runs
NextChats ==
    \/ \E p \in ConcurrentProcs, variant \in Variants :
          Receive(p, variant, "events", 1, "")
    \/ \E p \in ConcurrentProcs, e \in ChatEvents : Dispatch(p, e)
    \/ \E p \in ConcurrentProcs : LoopEnd(p)
    \/ \E p \in ConcurrentProcs : Respond(p)
    \/ \E p \in ConcurrentProcs : GetUser(p)
    \/ \E p \in ConcurrentProcs : GetProfile(p)
    \/ \E p \in ConcurrentProcs : CreatePendingUser(p)
    \/ \E p \in ConcurrentProcs : RegisterUser(p)
    \/ \E p \in ConcurrentProcs : InsertUser(p)
    \/ \E p \in ConcurrentProcs : GetHistory(p)
    \/ \E p \in ConcurrentProcs : GetResponse(p)
    \/ \E p \in ConcurrentProcs : AddUserTurn(p)
    \/ \E p \in ConcurrentProcs : AddAssistantTurn(p)
    \/ \E p \in ConcurrentProcs : SendReply(p)
    \/ \E p \in ConcurrentProcs : StoreFault(p)
    \/ Tick

SpecChats == InitConcurrent /\ [][NextChats]_vars

\* direct callers of UserRepository of src/database.py, over a directory
\* without or with a record of the sender
InitDirectory ==
    /\ clock = Epoch
    /\ dbclock = Epoch
    /\ regs = SomeRegs
    /\ callers = [p \in Callers |-> IdleCaller]
    /\ chat = <<>>
    /\ hist = [op |-> "none"]
    /\ users \in {NoUsers, KnownUsers}
    /\ secret = FALSE
    /\ procs = IdleProcs

NextDirectory ==
    \/ \E p \in Callers, u \in Users, display_name \in {NameAnn, NoneStr},
          picture_url \in {PicUrl, NoneStr} :
          DbCreateCall(p, u, display_name, picture_url)
    \/ \E p \in Callers : DbCreatePendingUser(p)
    \/ \E p \in Callers, u \in Users, c \in RegCodes : DbRegisterCall(p, u, c)
    \/ \E p \in Callers : DbRegisterUser(p)
    \/ \E p \in Callers, u \in Users : DbGetUser(p, u)
    \/ \E p \in Callers : ClaimReturn(p)
    \/ Tick

SpecDirectory == InitDirectory /\ [][NextDirectory]_vars

\* the number of turns with the role in the user's stored history
RoleCount(u, role) ==
    Cardinality({i \in Matching(chat, u) : chat[i].role = role})

\* C14: in every reachable state, whatever the interleaving of the handlers
\* and wherever a handler fails, no user's stored history holds more
\* assistant turns than user turns.
C14_NoOrphanAssistantTurn ==
    \A u \in Users : RoleCount(u, "assistant") <= RoleCount(u, "user")

----------------------------------------------------------------------------
(* The clocks of the application and of the store *)

\* time passes on the store's server; its clock and the application's are
\* not synchronized
DbTick ==
    /\ \E t \in Times : TimeLt(dbclock, t) /\ dbclock' = t
    /\ UNCHANGED <<clock, regs, callers, chat, hist, users, secret, procs>>

\* direct callers of find_and_claim_registration, with any skew between the
\* two clocks
InitSkew ==
    /\ clock = Epoch
    /\ dbclock = Epoch
    /\ regs = SomeRegs
    /\ callers = [p \in Callers |-> IdleCaller]
    /\ chat = <<>>
    /\ hist = [op |-> "none"]
    /\ users = NoUsers
    /\ secret = FALSE
    /\ procs = IdleProcs

NextSkew ==
    \/ \E p \in Callers, c \in RegCodes, u \in Users : ClaimCall(p, c, u)
    \/ \E p \in Callers : ClaimStore(p)
    \/ \E p \in Callers : ClaimReturn(p)
    \/ Tick
    \/ DbTick

SpecSkew == InitSkew /\ [][NextSkew]_vars

\* C15: whatever the skew between the application clock and the store
\* clock, a record is claimed only while its expiry is after the store's
\* current time, and the completion stamp is the store's time of the claim.
C15_StoreClockDecides ==
    [][\A r \in RegIds :
          (regs[r].status = "pending" /\ regs'[r].status = "completed")
          => /\ StrGt(regs[r].expires_at, IsoFormat(dbclock))
             /\ regs'[r].completed_at = IsoFormat(dbclock)]_vars

----------------------------------------------------------------------------
(* Concurrent handlers of one user *)

\* the handling of a contact by src/app.py is over and no store outage cut
\* it short
AppContactHandled(p) ==
    /\ Handled(p) /\ procs[p].variant = "app"
    /\ Contact(procs[p].ev)
    /\ procs[p].exc # "StoreError"

\* C16: after two concurrent handlers of src/app.py, message or follow, for
\* one user have run in any interleaving, the directory holds the record of
\* that user, exactly one.
C16_OneRecordPerUser ==
    \A p \in ConcurrentProcs, q \in ConcurrentProcs :
        (/\ p # q
         /\ AppContactHandled(p) /\ AppContactHandled(q)
         /\ procs[p].ev.source = procs[q].ev.source)
        => Len(users[procs[p].ev.source]) = 1

----------------------------------------------------------------------------
(* The signature of a request *)

\* C17: in src/app.py with a channel secret configured, the events of a
\* request are processed (the loop over the batch is entered) only if the
\* request carries the signature that is the HMAC of its body; a missing,
\* empty or mismatching signature causes no event processing.
C17_OnlySignedProcessed ==
    \A p \in Procs :
        (procs[p].variant = "app" /\ secret /\ procs[p].i >= 1)
        => procs[p].sig = "valid"

----------------------------------------------------------------------------
(* Concurrent chats of one user *)

\* the handling of an ordinary text of user u is over and went through to
\* its reply
ChatHandled(p, u) ==
    /\ Handled(p) /\ procs[p].exc = "none"
    /\ procs[p].ev.source = u
    /\ ChatsOn(procs[p].variant, procs[p].ev)

\* the turns are user/assistant pairs: a user turn at every odd position,
\* an assistant turn at every even one
Paired(t) ==
    \A i \in 1..Len(t) : t[i].role = (IF i % 2 = 1 THEN "user" ELSE "assistant")

\* C18: when two handlers of ordinary texts of one user have run, in any
\* interleaving, and the four turns they appended are in the store, the
\* stored history is a sequence of user/assistant pairs: each user turn is
\* immediately followed by the assistant turn that answers it.
C18_ChatsStayPaired ==
    \A u \in Users, p \in ConcurrentProcs, q \in ConcurrentProcs :
        (/\ p # q
         /\ ChatHandled(p, u) /\ ChatHandled(q, u)
         /\ Len(TurnsOf(chat, u)) = 4)
        => Paired(TurnsOf(chat, u))

----------------------------------------------------------------------------
(* The registration state of the directory *)

\* the record carries no registration code
NoCode(doc) ==
    Field(doc, "registration_code")
        \in {[present |-> FALSE], [present |-> TRUE, value |-> NoneStr]}

\* C19: in every state reached through webhook events alone, every record
\* of the user directory is pending, registered = false, and carries no
\* registration code; and the step of the handler that attempts the
\* registration claim never writes the directory.
C19_DirectoryStaysPending ==
    /\ [](\A u \in Users : \A i \in 1..Len(users[u]) :
            Pending(users[u][i]) /\ NoCode(users[u][i]))
    /\ [][\A p \in Procs :
            (procs[p].pc = "claim" /\ procs'[p].pc # "claim") => users' = users]_vars

====
